---- MODULE Spec2Model ----
(***************************************************************************)
(* Model of the Telegram transaction bot (render-webhook-bot.py): the      *)
(* process-wide configuration globals, fetch_bot_configuration, the        *)
(* TransactionBot methods and the Flask handlers, with the handlers        *)
(* interleaved at the level of their accesses to the shared globals.       *)
(***************************************************************************)
EXTENDS Integers, Sequences, FiniteSets, TLC

(***************************************************************************)
(* Python values.  A value is None, an int or a str; a str is a sequence   *)
(* of one-character strings, so that str() is computed, not assumed.       *)
(***************************************************************************)
PyNone == [tag |-> "none", n |-> 0, s |-> <<>>]

PyInt(i) == [tag |-> "int", n |-> i, s |-> <<>>]

PyStr(chars) == [tag |-> "str", n |-> 0, s |-> chars]

DigitChars == <<"0", "1", "2", "3", "4", "5", "6", "7", "8", "9">>

RECURSIVE NatDigits(_)
NatDigits(i) ==
    IF i < 10 THEN <<DigitChars[i + 1]>>
    ELSE NatDigits(i \div 10) \o <<DigitChars[(i % 10) + 1]>>

\* str(x) of Python: the characters of the result.
str(v) ==
    CASE v.tag = "none" -> <<"N", "o", "n", "e">>
      [] v.tag = "int"  -> IF v.n < 0 THEN <<"-">> \o NatDigits(-v.n)
                                      ELSE NatDigits(v.n)
      [] v.tag = "str"  -> v.s

\* bool(x) of Python: None, 0 and "" are falsy.
truthy(v) ==
    CASE v.tag = "none" -> FALSE
      [] v.tag = "int"  -> v.n # 0
      [] v.tag = "str"  -> v.s # <<>>

\* Mutant: the ids compared as they are, without str().
is_authorized_chat_raw(authorized, chat_id) ==
    IF ~truthy(authorized) THEN FALSE
    ELSE chat_id = authorized

\* TransactionBot.is_authorized_chat with self.authorized_chat_id = authorized.
is_authorized_chat(authorized, chat_id) ==
    IF ~truthy(authorized) THEN FALSE
    ELSE str(chat_id) = str(authorized)

(***************************************************************************)
(* Program constants.                                                      *)
(***************************************************************************)
CONFIG_CACHE_DURATION == 300

VENDOR_ID == 3

(***************************************************************************)
(* Bounds of the model.                                                    *)
(***************************************************************************)
\* Number of handler threads of the threaded server.
NumHandlers == 2

\* Requests served after startup.
MaxRequests == 2

\* Times the wall clock is seen to have advanced between two readings.
MaxTicks == 2

Handlers == 1..NumHandlers

\* time.time() of the first reading, and the advances between readings.
StartTime == 1000

TickSteps == {1, 299}

(***************************************************************************)
(* Inputs: what the configuration endpoint, Telegram and the relay API     *)
(* can answer, and the updates Telegram can deliver.                       *)
(***************************************************************************)
TokA == PyStr(<<"A">>)

TokB == PyStr(<<"B">>)

\* JSON objects served by the configuration endpoint; config_data.get of a
\* missing key is None.
ConfigBodies ==
    { [bot_token |-> TokA,   chat_id |-> PyInt(1)],
      [bot_token |-> TokB,   chat_id |-> PyStr(<<"2">>)],
      [bot_token |-> PyNone, chat_id |-> PyInt(1)] }

NoBody == [bot_token |-> PyNone, chat_id |-> PyNone]

\* Outcomes of requests.get on the configuration endpoint: 200 with a JSON
\* object, 200 with a body that is not JSON, 200 with JSON that is not an
\* object, another status, an exception (timeout, connection error).
ConfigFailures == {"bad_json", "not_object", "status", "exception"}

ConfigResponses ==
    { [kind |-> "ok", body |-> b] : b \in ConfigBodies }
    \cup { [kind |-> k, body |-> NoBody] : k \in ConfigFailures }

\* Message texts, given by what the code reads of them: whether the text
\* starts with '/', its first whitespace-separated word when it does, and
\* the captures re.findall returns for each pattern of the two pattern lists
\* (reference captures as strings, amount captures as character sequences).
NoRefs == << <<>>, <<>>, <<>>, <<>> >>

NoAmts == << <<>>, <<>>, <<>>, <<>>, <<>>, <<>>, <<>>, <<>> >>

\* "/start"
TxtStart == [slash |-> TRUE, word |-> "/start", refs |-> NoRefs, amts |-> NoAmts]

\* "/help"
TxtHelp == [slash |-> TRUE, word |-> "/help", refs |-> NoRefs, amts |-> NoAmts]

\* "hello"
TxtNone == [slash |-> FALSE, word |-> "", refs |-> NoRefs, amts |-> NoAmts]

\* "Rs ,": the Rs pattern captures "," which float() rejects.
TxtComma ==
    [slash |-> FALSE, word |-> "", refs |-> NoRefs,
     amts |-> << <<>>, << <<",">> >>, <<>>, <<>>, <<>>, <<>>, <<>>, <<>> >>]

\* "credited for Rs.2.00 on 12-09-25 and debited from a/c no. XX0076
\*  (UPI Ref no 690518190930)"
TxtBoth ==
    [slash |-> FALSE, word |-> "",
     refs |-> << <<"690518190930">>, <<"690518190930">>, <<>>, <<>> >>,
     amts |-> << <<>>, << <<"2", ".", "0", "0">> >>, <<>>, <<>>, <<>>, <<>>,
                 << <<"2", ".", "0", "0">> >>, <<>> >>]

\* "Txn ID 11111111 Ref no 22222222 INR 1,000 Rs 5.00": the captures come
\* in the order of the patterns, not of the text.
TxtTwo ==
    [slash |-> FALSE, word |-> "",
     refs |-> << <<>>, <<"22222222">>, <<>>, <<"11111111">> >>,
     amts |-> << <<>>, << <<"5", ".", "0", "0">> >>, << <<"1", ",", "0", "0", "0">> >>,
                 <<>>, <<>>, << <<"1", ",", "0", "0", "0">> >>, <<>>, <<>> >>]

\* "Ref no 22222222"
TxtRefOnly ==
    [slash |-> FALSE, word |-> "",
     refs |-> << <<>>, <<"22222222">>, <<>>, <<>> >>, amts |-> NoAmts]

\* "INR 1,000"
TxtAmtOnly ==
    [slash |-> FALSE, word |-> "", refs |-> NoRefs,
     amts |-> << <<>>, <<>>, << <<"1", ",", "0", "0", "0">> >>, <<>>, <<>>, <<>>,
                 <<>>, <<>> >>]

\* "/pay Rs 5.00"
TxtPay ==
    [slash |-> TRUE, word |-> "/pay", refs |-> NoRefs,
     amts |-> << <<>>, << <<"5", ".", "0", "0">> >>, <<>>, <<>>, <<>>, <<>>, <<>>,
                 <<>> >>]

Texts ==
    {TxtStart, TxtHelp, TxtPay, TxtNone, TxtComma, TxtBoth, TxtTwo, TxtRefOnly,
     TxtAmtOnly}

NoText == [slash |-> FALSE, word |-> "", refs |-> NoRefs, amts |-> NoAmts]

ChatIds == {PyInt(1), PyInt(2)}

MigrateIds == {PyInt(2)}

UpdateKinds == {"message", "edited_message", "channel_post", "edited_channel_post"}

\* An update: kind is the key present in the update ("empty" for a falsy
\* body, "other" for an update with none of the four keys); has_chat,
\* has_text and has_migrate say which keys the message object holds.
NoUpdate ==
    [kind |-> "none", has_chat |-> FALSE, chat_id |-> PyNone,
     has_text |-> FALSE, text |-> NoText,
     has_migrate |-> FALSE, migrate_to_chat_id |-> PyNone]

MessageObjects ==
    { [has_chat |-> TRUE, chat_id |-> c, has_text |-> TRUE, text |-> t] :
        c \in ChatIds, t \in Texts }
    \cup { [has_chat |-> TRUE, chat_id |-> c, has_text |-> FALSE, text |-> NoText] :
        c \in ChatIds }
    \cup { [has_chat |-> FALSE, chat_id |-> PyNone, has_text |-> TRUE, text |-> TxtNone],
           [has_chat |-> FALSE, chat_id |-> PyNone, has_text |-> FALSE, text |-> NoText] }

\* migrate_to_chat_id is a field of service messages: Telegram sends it in
\* updates of kind "message" only.
Updates ==
    { [kind |-> k, has_chat |-> m.has_chat, chat_id |-> m.chat_id,
       has_text |-> m.has_text, text |-> m.text,
       has_migrate |-> FALSE, migrate_to_chat_id |-> PyNone] :
        k \in UpdateKinds, m \in MessageObjects }
    \cup { [kind |-> "message", has_chat |-> m.has_chat, chat_id |-> m.chat_id,
            has_text |-> m.has_text, text |-> m.text,
            has_migrate |-> TRUE, migrate_to_chat_id |-> g] :
        m \in MessageObjects, g \in MigrateIds }
    \cup { [NoUpdate EXCEPT !.kind = "empty"], [NoUpdate EXCEPT !.kind = "other"] }

\* Bodies of HTTP answers: sequences of one-character strings.
JsonText == <<"{", "}">>

HtmlText == <<"<", "h", "t", "m", "l", ">">>

\* A body of n characters.
BodyOfLen(n) == [i \in 1..n |-> DigitChars[(i % 10) + 1]]

\* response.text[:500] of call_external_api.
ExcerptLimit == 500

\* api_result['response'][:300] of process_message.
ReplyExcerptLimit == 300

\* The bodies of the answers with a status other than 200: empty, as long
\* as each limit, and one character longer than the excerpt.
ErrorBodies ==
    { <<>>, BodyOfLen(ReplyExcerptLimit), BodyOfLen(ExcerptLimit),
      BodyOfLen(ExcerptLimit + 1) }

\* Outcomes of requests.post on the relay endpoint: an answer (status 200
\* with a JSON object, an empty body or a page of HTML; another status), a
\* timeout, or another exception of requests.
RelayOutcomes ==
    { [kind |-> "response", status_code |-> 200, text |-> b] :
        b \in {JsonText, <<>>, HtmlText} }
    \cup { [kind |-> "response", status_code |-> c, text |-> b] :
        c \in {201, 500}, b \in ErrorBodies }
    \cup { [kind |-> k, status_code |-> 0, text |-> <<>>] :
        k \in {"timeout", "network"} }

(***************************************************************************)
(* Extraction (TransactionBot.extract_reference_numbers and                *)
(* extract_money_amounts).  Amounts are held in hundredths.                *)
(***************************************************************************)
RECURSIVE Flatten(_)
Flatten(seqs) ==
    IF seqs = <<>> THEN <<>> ELSE Head(seqs) \o Flatten(Tail(seqs))

InSeq(x, seq) == \E i \in 1..Len(seq) : seq[i] = x

\* Mutant: nothing is removed.
Unique_keep(seq, acc) == acc \o seq

\* "Remove duplicates while preserving order": the seen-set loop.
RECURSIVE Unique(_, _)
Unique(seq, acc) ==
    IF seq = <<>> THEN acc
    ELSE IF InSeq(Head(seq), acc) THEN Unique(Tail(seq), acc)
         ELSE Unique(Tail(seq), Append(acc, Head(seq)))

IsDigit(c) == \E d \in 1..10 : DigitChars[d] = c

DigitVal(c) == (CHOOSE d \in 1..10 : DigitChars[d] = c) - 1

RECURSIVE DigitsVal(_, _)
DigitsVal(cs, acc) ==
    IF cs = <<>> THEN acc ELSE DigitsVal(Tail(cs), 10 * acc + DigitVal(Head(cs)))

\* match.replace(',', '')
replace_commas(cs) == SelectSeq(cs, LAMBDA c : c # ",")

\* float(s) for a string of digits and dots with at most two digits after
\* the dot (the amount patterns capture none or two): ok is FALSE where
\* float raises ValueError.
float(cs) ==
    LET dots == {i \in 1..Len(cs) : cs[i] = "."}
        dot  == IF dots = {} THEN Len(cs) + 1 ELSE CHOOSE i \in dots : TRUE
        ip   == SubSeq(cs, 1, dot - 1)
        fp   == SubSeq(cs, dot + 1, Len(cs))
        wellFormed ==
            /\ Cardinality(dots) <= 1
            /\ \A i \in 1..Len(ip) : IsDigit(ip[i])
            /\ \A i \in 1..Len(fp) : IsDigit(fp[i])
            /\ Len(ip) + Len(fp) > 0
    IN  IF wellFormed
        THEN [ok |-> TRUE,
              value |-> 100 * DigitsVal(ip, 0)
                        + (IF Len(fp) = 1 THEN 10 ELSE 1) * DigitsVal(fp, 0)]
        ELSE [ok |-> FALSE, value |-> 0]

extract_reference_numbers(text) == Unique(Flatten(text.refs), <<>>)

\* Mutant: without the try, the first capture float() rejects ends the
\* extraction and the amounts parsed so far are lost with the rest.
ParsedAmounts_abort(caps) ==
    IF \E i \in 1..Len(caps) : ~float(replace_commas(caps[i])).ok THEN <<>>
    ELSE [i \in 1..Len(caps) |-> float(replace_commas(caps[i])).value]

\* Lines 137-144: the captures parsed one by one; one that float() rejects
\* is passed over.
RECURSIVE ParsedAmounts(_)
ParsedAmounts(caps) ==
    IF caps = <<>> THEN <<>>
    ELSE LET f == float(replace_commas(Head(caps)))
         IN  (IF f.ok THEN <<f.value>> ELSE <<>>) \o ParsedAmounts(Tail(caps))

\* Mutant: the duplicates are removed among the captured strings, before
\* they are parsed.
extract_money_amounts_by_text(text) ==
    ParsedAmounts(Unique(Flatten(text.amts), <<>>))

extract_money_amounts(text) == Unique(ParsedAmounts(Flatten(text.amts)), <<>>)

(***************************************************************************)
(* re.findall(pattern, text, re.IGNORECASE) for the patterns of the two    *)
(* extraction methods.  A text is a sequence of characters (the rupee sign *)
(* is the one element "(rupee)").  A pattern is the sequence of its items; *)
(* each item takes the longest run it can, as re does first.  For these    *)
(* patterns re finds nothing more by backtracking: an item that is         *)
(* optional, or that could take less, is always followed by an item that   *)
(* cannot begin with what the item gives back.                             *)
(***************************************************************************)
UpperChars ==
    <<"A", "B", "C", "D", "E", "F", "G", "H", "I", "J", "K", "L", "M",
      "N", "O", "P", "Q", "R", "S", "T", "U", "V", "W", "X", "Y", "Z">>

LowerChars ==
    <<"a", "b", "c", "d", "e", "f", "g", "h", "i", "j", "k", "l", "m",
      "n", "o", "p", "q", "r", "s", "t", "u", "v", "w", "x", "y", "z">>

ToLower ==
    [c \in {UpperChars[i] : i \in 1..26} |->
        LowerChars[CHOOSE i \in 1..26 : UpperChars[i] = c]]

\* re.IGNORECASE: the characters are compared in lower case.
lower(c) == IF c \in DOMAIN ToLower THEN ToLower[c] ELSE c

\* \s
IsSpace(c) == c \in {" ", "\n", "\t"}

\* The character classes of the patterns: \s, \d and [\d,].
InClass(c, class) ==
    CASE class = "space"  -> IsSpace(c)
      [] class = "digit"  -> IsDigit(c)
      [] class = "number" -> IsDigit(c) \/ c = ","

\* The length of the run of characters of a class that begins at p.
RECURSIVE RunLength(_, _, _)
RunLength(text, p, class) ==
    IF p <= Len(text) /\ InClass(text[p], class)
    THEN 1 + RunLength(text, p + 1, class)
    ELSE 0

\* A literal at p: the position after it, or 0 when it is not there.
Literal(text, p, w) ==
    IF /\ p + Len(w) - 1 <= Len(text)
       /\ \A i \in 1..Len(w) : lower(text[p + i - 1]) = w[i]
    THEN p + Len(w)
    ELSE 0

\* An optional literal.
Optional(text, p, w) ==
    IF Literal(text, p, w) # 0 THEN Literal(text, p, w) ELSE p

NoMatch == [end |-> 0, cap |-> <<>>]

\* One item of a pattern at p: the position after what it takes (0 when it
\* fails) and, for the group of the pattern, what it captures.
Item(it, text, p) ==
    LET at(e) == [end |-> e, cap |-> <<>>]
    IN  CASE it.op = "lit" -> at(Literal(text, p, it.w))
          [] it.op = "opt" -> at(Optional(text, p, it.w))
          \* \s*
          [] it.op = "ws" -> at(p + RunLength(text, p, "space"))
          \* \s+
          [] it.op = "ws1" ->
                IF RunLength(text, p, "space") = 0 THEN NoMatch
                ELSE at(p + RunLength(text, p, "space"))
          \* [:\-]?
          [] it.op = "sep" ->
                at(IF p <= Len(text) /\ text[p] \in {":", "-"} THEN p + 1 ELSE p)
          \* :?
          [] it.op = "colon" ->
                at(IF p <= Len(text) /\ text[p] = ":" THEN p + 1 ELSE p)
          \* (?:no\.?|number)?
          [] it.op = "label" ->
                at(IF Literal(text, p, <<"n", "o">>) # 0
                   THEN Optional(text, Literal(text, p, <<"n", "o">>), <<".">>)
                   ELSE Optional(text, p, <<"n", "u", "m", "b", "e", "r">>))
          \* (?:rupees|rs)
          [] it.op = "suffix" ->
                at(IF Literal(text, p, <<"r", "u", "p", "e", "e", "s">>) # 0
                   THEN Literal(text, p, <<"r", "u", "p", "e", "e", "s">>)
                   ELSE Literal(text, p, <<"r", "s">>))
          \* (\d{8,20})
          [] it.op = "digits" ->
                LET n == RunLength(text, p, "digit")
                    k == IF n > 20 THEN 20 ELSE n
                IN  IF n < 8 THEN NoMatch
                    ELSE [end |-> p + k, cap |-> SubSeq(text, p, p + k - 1)]
          \* ([\d,]+(?:\.\d{2})?)
          [] it.op = "num" ->
                LET n == RunLength(text, p, "number")
                    q == p + n
                    k == IF /\ q + 2 <= Len(text) /\ text[q] = "."
                            /\ IsDigit(text[q + 1]) /\ IsDigit(text[q + 2])
                         THEN n + 3 ELSE n
                IN  IF n = 0 THEN NoMatch
                    ELSE [end |-> p + k, cap |-> SubSeq(text, p, p + k - 1)]

\* The items of a pattern one after the other from p.
RECURSIVE MatchAt(_, _, _, _)
MatchAt(items, text, p, cap) ==
    IF items = <<>> THEN [end |-> p, cap |-> cap]
    ELSE LET r == Item(Head(items), text, p)
         IN  IF r.end = 0 THEN NoMatch
             ELSE MatchAt(Tail(items), text, r.end,
                          IF Head(items).op \in {"digits", "num"} THEN r.cap ELSE cap)

\* re.findall: the captures of the matches that do not overlap, from left
\* to right; the search goes on after the end of each match.
RECURSIVE FindFrom(_, _, _)
FindFrom(items, text, p) ==
    IF p > Len(text) THEN <<>>
    ELSE LET r == MatchAt(items, text, p, <<>>)
         IN  IF r.end # 0 THEN <<r.cap>> \o FindFrom(items, text, r.end)
             ELSE FindFrom(items, text, p + 1)

findall(pattern, text) == FindFrom(pattern, text, 1)

\* The patterns of extract_reference_numbers, lines 101-106.
ReferencePatterns ==
    <<
      << [op |-> "lit", w |-> <<"u", "p", "i">>],
         [op |-> "ws", w |-> <<>>],
         [op |-> "lit", w |-> <<"r", "e", "f">>],
         [op |-> "opt", w |-> <<"e", "r", "e", "n", "c", "e">>],
         [op |-> "ws", w |-> <<>>],
         [op |-> "label", w |-> <<>>],
         [op |-> "ws", w |-> <<>>],
         [op |-> "sep", w |-> <<>>],
         [op |-> "ws", w |-> <<>>],
         [op |-> "digits", w |-> <<>>] >>,
      << [op |-> "lit", w |-> <<"r", "e", "f">>],
         [op |-> "opt", w |-> <<"e", "r", "e", "n", "c", "e">>],
         [op |-> "ws", w |-> <<>>],
         [op |-> "label", w |-> <<>>],
         [op |-> "ws", w |-> <<>>],
         [op |-> "sep", w |-> <<>>],
         [op |-> "ws", w |-> <<>>],
         [op |-> "digits", w |-> <<>>] >>,
      << [op |-> "lit", w |-> <<"t", "r", "a", "n", "s", "a", "c", "t", "i", "o", "n">>],
         [op |-> "ws", w |-> <<>>],
         [op |-> "lit", w |-> <<"i", "d">>],
         [op |-> "sep", w |-> <<>>],
         [op |-> "ws", w |-> <<>>],
         [op |-> "digits", w |-> <<>>] >>,
      << [op |-> "lit", w |-> <<"t", "x", "n">>],
         [op |-> "ws", w |-> <<>>],
         [op |-> "lit", w |-> <<"i", "d">>],
         [op |-> "sep", w |-> <<>>],
         [op |-> "ws", w |-> <<>>],
         [op |-> "digits", w |-> <<>>] >>
    >>

\* The patterns of extract_money_amounts, lines 125-134.
AmountPatterns ==
    <<
      << [op |-> "lit", w |-> <<"(rupee)">>],
         [op |-> "ws", w |-> <<>>],
         [op |-> "num", w |-> <<>>] >>,
      << [op |-> "lit", w |-> <<"r", "s">>],
         [op |-> "opt", w |-> <<".">>],
         [op |-> "ws", w |-> <<>>],
         [op |-> "num", w |-> <<>>] >>,
      << [op |-> "lit", w |-> <<"i", "n", "r">>],
         [op |-> "ws", w |-> <<>>],
         [op |-> "num", w |-> <<>>] >>,
      << [op |-> "lit", w |-> <<"$">>],
         [op |-> "ws", w |-> <<>>],
         [op |-> "num", w |-> <<>>] >>,
      << [op |-> "lit", w |-> <<"a", "m", "o", "u", "n", "t">>],
         [op |-> "ws", w |-> <<>>],
         [op |-> "colon", w |-> <<>>],
         [op |-> "ws", w |-> <<>>],
         [op |-> "num", w |-> <<>>] >>,
      << [op |-> "num", w |-> <<>>],
         [op |-> "ws", w |-> <<>>],
         [op |-> "suffix", w |-> <<>>] >>,
      << [op |-> "lit", w |-> <<"c", "r", "e", "d", "i", "t", "e", "d">>],
         [op |-> "ws1", w |-> <<>>],
         [op |-> "lit", w |-> <<"f", "o", "r">>],
         [op |-> "ws1", w |-> <<>>],
         [op |-> "lit", w |-> <<"r", "s">>],
         [op |-> "opt", w |-> <<".">>],
         [op |-> "ws", w |-> <<>>],
         [op |-> "num", w |-> <<>>] >>,
      << [op |-> "lit", w |-> <<"d", "e", "b", "i", "t", "e", "d">>],
         [op |-> "ws1", w |-> <<>>],
         [op |-> "lit", w |-> <<"f", "o", "r">>],
         [op |-> "ws1", w |-> <<>>],
         [op |-> "lit", w |-> <<"r", "s">>],
         [op |-> "opt", w |-> <<".">>],
         [op |-> "ws", w |-> <<>>],
         [op |-> "num", w |-> <<>>] >>
    >>

\* What the two methods read of a text: the captures of each pattern.
Scan(text) ==
    [refs |-> [i \in 1..Len(ReferencePatterns) |-> findall(ReferencePatterns[i], text)],
     amts |-> [i \in 1..Len(AmountPatterns) |-> findall(AmountPatterns[i], text)]]

(***************************************************************************)
(* State.                                                                  *)
(***************************************************************************)
VARIABLES
    BOT_TOKEN,           \* global BOT_TOKEN
    AUTHORIZED_CHAT_ID,  \* global AUTHORIZED_CHAT_ID
    LAST_CONFIG_FETCH,   \* global LAST_CONFIG_FETCH: None or a time
    bot,                 \* global bot: None or the TransactionBot it names
    clock,               \* the last value time.time() returned
    ticks,               \* advances of the clock so far
    phase,               \* "init", "serving" or "halted" (exit(1))
    nreq,                \* requests accepted so far
    th,                  \* per thread: the handler it runs and its locals
    probe                \* inputs and result of a function applied on its own

vars == <<BOT_TOKEN, AUTHORIZED_CHAT_ID, LAST_CONFIG_FETCH, bot, clock, ticks,
          phase, nreq, th, probe>>

globals == <<BOT_TOKEN, AUTHORIZED_CHAT_ID, LAST_CONFIG_FETCH, bot>>

\* TransactionBot.__init__: the fields that differ between instances.
NoBot == [some |-> FALSE, token |-> PyNone, authorized_chat_id |-> PyNone]

TransactionBot(token, authorized_chat_id) ==
    [some |-> TRUE, token |-> token, authorized_chat_id |-> authorized_chat_id]

\* A thread's reference to a bot instance.  An instance is written only by
\* line 382, through the global bot; so an instance the global no longer
\* names never changes again and is held by value ("orphan").
NoSelf == [ref |-> "unbound", obj |-> NoBot]

NoSnapshot == [bot_token |-> PyNone, chat_id |-> PyNone, fetched_at |-> PyNone]

\* No POST to the relay endpoint made yet.
NoOutcome == [kind |-> "none", status_code |-> 0, text |-> <<>>]

\* The dictionary call_external_api returns; a key that is absent is held
\* as "none", the empty sequence or 0 (no HTTP status is 0).
NoResult ==
    [success |-> FALSE, data |-> "none", error |-> <<>>, response |-> <<>>,
     status_code |-> 0]

IdleThread ==
    [pc |-> "idle", kind |-> "none", update |-> NoUpdate,
     force |-> FALSE, current_time |-> 0, fetch |-> "none", body |-> NoBody,
     fetched |-> NoBody, arrived |-> PyNone,
     before |-> NoSnapshot, gets |-> 0,
     token_arg |-> PyNone, chat_arg |-> PyNone, self |-> NoSelf,
     authorized |-> "unchecked", reference_numbers |-> <<>>, amounts |-> <<>>,
     http |-> NoOutcome, api |-> "none", api_result |-> NoResult,
     replies |-> <<>>, relays |-> <<>>,
     seen |-> NoSnapshot, exc |-> "none", resp |-> 0]

NoProbe ==
    [fn |-> "none", authorized |-> PyNone, chat_id |-> PyNone,
     done |-> FALSE, result |-> FALSE]

Init ==
    /\ BOT_TOKEN = PyNone
    /\ AUTHORIZED_CHAT_ID = PyNone
    /\ LAST_CONFIG_FETCH = PyNone
    /\ bot = NoBot
    /\ clock = StartTime
    /\ ticks = 0
    /\ phase = "init"
    /\ nreq = 0
    /\ th = [h \in Handlers |-> IdleThread]
    /\ probe = NoProbe

\* The instance a thread's self names.
SelfObj(t) == IF t.self.ref = "global" THEN bot ELSE t.self.obj

\* The handler returns: jsonify(...), code.
Respond(t, code) == [t EXCEPT !.pc = "done", !.resp = code]

\* Mutant: webhook has no except clause and the exception leaves it.
Raise_escape(t, e) == [t EXCEPT !.pc = "crashed", !.exc = e]

\* An exception raised inside webhook's try: lines 418-420 log it and
\* return the answer 500.
Raise(t, e) == [Respond(t, 500) EXCEPT !.exc = e]

(***************************************************************************)
(* fetch_bot_configuration(vendor_id, force_refresh), one action per       *)
(* access to the shared globals.                                           *)
(***************************************************************************)
\* Mutant: a route whose fetch failed tries the fetch again.
AfterFetch_retry(t, ok) ==
    IF ok THEN [t EXCEPT !.pc = "load_token"]
    ELSE IF t.kind = "main" THEN [t EXCEPT !.pc = "exited"]
    ELSE [t EXCEPT !.pc = "fetch_begin", !.gets = 0]

\* Mutant: webhook goes on with the snapshot it has when its fetch fails.
AfterFetch_stale(t, ok) ==
    IF ok \/ t.kind = "webhook" THEN [t EXCEPT !.pc = "load_token"]
    ELSE IF t.kind = "main" THEN [t EXCEPT !.pc = "exited"]
    ELSE Respond(t, 500)

\* What the caller does with the result: every caller goes on to build a
\* TransactionBot on True; on False __main__ exits and the routes answer 500.
AfterFetch(t, ok) ==
    IF ok THEN [t EXCEPT !.pc = "load_token"]
    ELSE IF t.kind = "main" THEN [t EXCEPT !.pc = "exited"]
    ELSE Respond(t, 500)

\* Mutant: the age compared with <= instead of <.
UseCached_inclusive(force_refresh, last, current_time) ==
    /\ ~force_refresh
    /\ truthy(last)
    /\ (current_time - last.n) <= CONFIG_CACHE_DURATION

\* "Using cached bot configuration": the condition of line 40.
UseCached(force_refresh, last, current_time) ==
    /\ ~force_refresh
    /\ truthy(last)
    /\ (current_time - last.n) < CONFIG_CACHE_DURATION

\* Lines 39-42: read the clock, which may have advanced, and test the cache.
FetchBegin(h) ==
    /\ th[h].pc = "fetch_begin"
    /\ \E d \in {0} \cup TickSteps :
        /\ d > 0 => ticks < MaxTicks
        /\ clock' = clock + d
        /\ ticks' = IF d > 0 THEN ticks + 1 ELSE ticks
        /\ LET t == [th[h] EXCEPT
                        !.current_time = clock + d,
                        !.before = [bot_token |-> BOT_TOKEN,
                                    chat_id |-> AUTHORIZED_CHAT_ID,
                                    fetched_at |-> LAST_CONFIG_FETCH]]
           IN  th' = [th EXCEPT ![h] =
                        IF UseCached(t.force, LAST_CONFIG_FETCH, t.current_time)
                        THEN AfterFetch([t EXCEPT !.fetch = "cached"], TRUE)
                        ELSE [t EXCEPT !.pc = "fetch_get"]]
    /\ UNCHANGED <<globals, phase, nreq, probe>>

\* Mutant: a failed fetch clears the token.
FetchGet_clear(h, env) ==
    /\ th[h].pc = "fetch_get"
    /\ \E r \in env.config :
        LET t == [th[h] EXCEPT !.gets = @ + 1, !.fetch = r.kind, !.body = r.body,
                                 !.fetched = r.body]
        IN  /\ th' = [th EXCEPT ![h] =
                        IF r.kind = "ok" THEN [t EXCEPT !.pc = "fetch_store_token"]
                        ELSE AfterFetch(t, FALSE)]
            /\ phase' = IF r.kind # "ok" /\ t.kind = "main" THEN "halted" ELSE phase
            /\ BOT_TOKEN' = IF r.kind = "ok" THEN BOT_TOKEN ELSE PyNone
    /\ UNCHANGED <<AUTHORIZED_CHAT_ID, LAST_CONFIG_FETCH, bot, clock, ticks, nreq, probe>>

\* Lines 44-57 and 70-76: the GET and the answer's classification.
FetchGet(h, env) ==
    /\ th[h].pc = "fetch_get"
    /\ \E r \in env.config :
        LET t == [th[h] EXCEPT !.gets = @ + 1, !.fetch = r.kind, !.body = r.body,
                                 !.fetched = r.body]
        IN  /\ th' = [th EXCEPT ![h] =
                        IF r.kind = "ok" THEN [t EXCEPT !.pc = "fetch_store_token"]
                        ELSE AfterFetch(t, FALSE)]
            /\ phase' = IF r.kind # "ok" /\ t.kind = "main" THEN "halted" ELSE phase
    /\ UNCHANGED <<globals, clock, ticks, nreq, probe>>

\* Line 59.
FetchStoreToken(h) ==
    /\ th[h].pc = "fetch_store_token"
    /\ BOT_TOKEN' = th[h].body.bot_token
    /\ th' = [th EXCEPT ![h].pc = "fetch_store_chat"]
    /\ UNCHANGED <<AUTHORIZED_CHAT_ID, LAST_CONFIG_FETCH, bot, clock, ticks, phase, nreq, probe>>

\* Mutant: a chat id already stored is kept when the fetched one differs.
FetchStoreChat_keep(h) ==
    /\ th[h].pc = "fetch_store_chat"
    /\ AUTHORIZED_CHAT_ID' = IF truthy(AUTHORIZED_CHAT_ID) THEN AUTHORIZED_CHAT_ID
                             ELSE th[h].body.chat_id
    /\ th' = [th EXCEPT ![h].pc = "fetch_store_time"]
    /\ UNCHANGED <<BOT_TOKEN, LAST_CONFIG_FETCH, bot, clock, ticks, phase, nreq, probe>>

\* Line 60.
FetchStoreChat(h) ==
    /\ th[h].pc = "fetch_store_chat"
    /\ AUTHORIZED_CHAT_ID' = th[h].body.chat_id
    /\ th' = [th EXCEPT ![h].pc = "fetch_store_time"]
    /\ UNCHANGED <<BOT_TOKEN, LAST_CONFIG_FETCH, bot, clock, ticks, phase, nreq, probe>>

\* Lines 61-69.
FetchStoreTime(h) ==
    /\ th[h].pc = "fetch_store_time"
    /\ LAST_CONFIG_FETCH' = PyInt(th[h].current_time)
    /\ th' = [th EXCEPT ![h] = AfterFetch(th[h], TRUE)]
    /\ UNCHANGED <<BOT_TOKEN, AUTHORIZED_CHAT_ID, bot, clock, ticks, phase, nreq, probe>>

(***************************************************************************)
(* bot = TransactionBot(BOT_TOKEN, ..., AUTHORIZED_CHAT_ID), as written in *)
(* webhook, refresh_bot_configuration, set_webhook, webhook_info and       *)
(* __main__: two loads of globals, then the store of the global bot.       *)
(***************************************************************************)
\* The locals of fetch_bot_configuration end with the call.
Returned(t) ==
    [t EXCEPT !.current_time = 0, !.body = NoBody, !.before = NoSnapshot]

LoadToken(h) ==
    /\ th[h].pc = "load_token"
    /\ th' = [th EXCEPT ![h] = [Returned(th[h]) EXCEPT !.token_arg = BOT_TOKEN,
                                                       !.pc = "load_chat"]]
    /\ UNCHANGED <<globals, clock, ticks, phase, nreq, probe>>

LoadChat(h) ==
    /\ th[h].pc = "load_chat"
    /\ th' = [th EXCEPT ![h].chat_arg = AUTHORIZED_CHAT_ID, ![h].pc = "store_bot"]
    /\ UNCHANGED <<globals, clock, ticks, phase, nreq, probe>>

\* Mutant: a command other than /start is handled as a regular message.
Dispatch_unknown(t) ==
    IF t.update.has_text /\ t.update.text.slash /\ t.update.text.word = "/start"
    THEN [t EXCEPT !.pc = "call_process_start"]
    ELSE IF t.update.has_text THEN [t EXCEPT !.pc = "call_process_message"]
    ELSE Respond(t, 200)

\* webhook, lines 385-396: commands, then regular messages.
Dispatch(t) ==
    IF t.update.has_text /\ t.update.text.slash
    THEN IF t.update.text.word = "/start"
         THEN [t EXCEPT !.pc = "call_process_start"]
         ELSE Respond(t, 200)
    ELSE IF t.update.has_text THEN [t EXCEPT !.pc = "call_process_message"]
    ELSE Respond(t, 200)

\* Mutant: edited messages and channel posts go to process_message with or
\* without a text.
Route_textless(t) ==
    IF t.update.kind = "message"
    THEN IF ~t.update.has_chat THEN Raise(t, "KeyError")
         ELSE IF t.update.has_migrate THEN [t EXCEPT !.pc = "migrate_global"]
         ELSE Dispatch(t)
    ELSE IF t.update.kind \in UpdateKinds
    THEN [t EXCEPT !.pc = "call_process_message"]
    ELSE Respond(t, 200)

\* Mutant: a text that begins with '/' is left out for the other kinds of
\* update too.
Route_slash(t) ==
    IF t.update.kind = "message"
    THEN IF ~t.update.has_chat THEN Raise(t, "KeyError")
         ELSE IF t.update.has_migrate THEN [t EXCEPT !.pc = "migrate_global"]
         ELSE Dispatch(t)
    ELSE IF t.update.kind \in UpdateKinds
    THEN IF t.update.has_text /\ ~t.update.text.slash
         THEN [t EXCEPT !.pc = "call_process_message"]
         ELSE Respond(t, 200)
    ELSE Respond(t, 200)

\* Mutant: commands are handled for every kind of update.
Route_commands(t) ==
    IF t.update.kind = "message"
    THEN IF ~t.update.has_chat THEN Raise(t, "KeyError")
         ELSE IF t.update.has_migrate THEN [t EXCEPT !.pc = "migrate_global"]
         ELSE Dispatch(t)
    ELSE IF t.update.kind \in UpdateKinds
    THEN IF t.update.has_text THEN Dispatch(t)
         ELSE Respond(t, 200)
    ELSE Respond(t, 200)

\* Mutant: the migration is applied only for the chat the fetch authorizes.
Route_guarded(t) ==
    IF t.update.kind = "message"
    THEN IF ~t.update.has_chat THEN Raise(t, "KeyError")
         ELSE IF t.update.has_migrate
                    /\ is_authorized_chat(t.fetched.chat_id, t.update.chat_id)
              THEN [t EXCEPT !.pc = "migrate_global"]
         ELSE Dispatch(t)
    ELSE IF t.update.kind \in UpdateKinds
    THEN IF t.update.has_text THEN [t EXCEPT !.pc = "call_process_message"]
         ELSE Respond(t, 200)
    ELSE Respond(t, 200)

\* webhook, lines 369-414, up to its next access to shared state.
Route(t) ==
    IF t.update.kind = "message"
    THEN IF ~t.update.has_chat THEN Raise(t, "KeyError")
         ELSE IF t.update.has_migrate THEN [t EXCEPT !.pc = "migrate_global"]
         ELSE Dispatch(t)
    ELSE IF t.update.kind \in UpdateKinds
    THEN IF t.update.has_text THEN [t EXCEPT !.pc = "call_process_message"]
         ELSE Respond(t, 200)
    ELSE Respond(t, 200)

\* What follows the construction of the bot in each caller.
AfterBot(t) ==
    CASE t.kind = "webhook"        -> Route(t)
      [] t.kind = "set_webhook"    -> [t EXCEPT !.pc = "telegram_api"]
      [] t.kind = "webhook_info"   -> [t EXCEPT !.pc = "telegram_api"]
      [] t.kind = "refresh_config" -> Respond(t, 200)
      [] t.kind = "main"           -> IdleThread

\* The threads whose self is the instance the global named keep it by value.
Orphaned(t) ==
    IF t.self.ref = "global" THEN [t EXCEPT !.self = [ref |-> "orphan", obj |-> bot]]
    ELSE t

\* Mutant: a bot that exists keeps its authorized chat id when it is rebuilt.
StoreBot_keep(h) ==
    /\ th[h].pc = "store_bot"
    /\ bot' = TransactionBot(th[h].token_arg,
                             IF bot.some THEN bot.authorized_chat_id
                             ELSE th[h].chat_arg)
    /\ th' = [k \in Handlers |->
                IF k = h
                THEN AfterBot([th[h] EXCEPT !.token_arg = PyNone, !.chat_arg = PyNone])
                ELSE Orphaned(th[k])]
    /\ phase' = IF th[h].kind = "main" THEN "serving" ELSE phase
    /\ UNCHANGED <<BOT_TOKEN, AUTHORIZED_CHAT_ID, LAST_CONFIG_FETCH, clock, ticks, nreq, probe>>

StoreBot(h) ==
    /\ th[h].pc = "store_bot"
    /\ bot' = TransactionBot(th[h].token_arg, th[h].chat_arg)
    /\ th' = [k \in Handlers |->
                IF k = h
                THEN AfterBot([th[h] EXCEPT !.token_arg = PyNone, !.chat_arg = PyNone])
                ELSE Orphaned(th[k])]
    /\ phase' = IF th[h].kind = "main" THEN "serving" ELSE phase
    /\ UNCHANGED <<BOT_TOKEN, AUTHORIZED_CHAT_ID, LAST_CONFIG_FETCH, clock, ticks, nreq, probe>>

(***************************************************************************)
(* webhook: the migration update, lines 378-382.                           *)
(***************************************************************************)
\* Mutant: the migration updates the bot only, not the global.
MigrateGlobal_skip(h) ==
    /\ th[h].pc = "migrate_global"
    /\ th' = [th EXCEPT ![h].pc = "migrate_bot"]
    /\ UNCHANGED <<globals, clock, ticks, phase, nreq, probe>>

MigrateGlobal(h) ==
    /\ th[h].pc = "migrate_global"
    /\ AUTHORIZED_CHAT_ID' = th[h].update.migrate_to_chat_id
    /\ th' = [th EXCEPT ![h].pc = "migrate_bot"]
    /\ UNCHANGED <<BOT_TOKEN, LAST_CONFIG_FETCH, bot, clock, ticks, phase, nreq, probe>>

\* Mutant: the migration updates the global only, not the bot.
MigrateBot_skip(h) ==
    /\ th[h].pc = "migrate_bot"
    /\ th' = [th EXCEPT ![h] = Dispatch(th[h])]
    /\ UNCHANGED <<globals, clock, ticks, phase, nreq, probe>>

MigrateBot(h) ==
    /\ th[h].pc = "migrate_bot"
    /\ bot' = [bot EXCEPT !.authorized_chat_id = th[h].update.migrate_to_chat_id]
    /\ th' = [th EXCEPT ![h] = Dispatch(th[h])]
    /\ UNCHANGED <<BOT_TOKEN, AUTHORIZED_CHAT_ID, LAST_CONFIG_FETCH, clock, ticks, phase, nreq, probe>>

(***************************************************************************)
(* TransactionBot.send_message: one POST to Telegram; the result is        *)
(* whether it answered 200, exceptions included (lines 224-229).           *)
(***************************************************************************)
\* text[:n] of Python.
slice(text, n) == SubSeq(text, 1, IF Len(text) < n THEN Len(text) ELSE n)

\* ', '.join(parts), each part a sequence of strings.
RECURSIVE join(_)
join(parts) ==
    IF parts = <<>> THEN <<>>
    ELSE IF Len(parts) = 1 THEN Head(parts)
         ELSE Head(parts) \o <<", ">> \o join(Tail(parts))

\* The ',' option of format(): a comma before each group of three digits.
RECURSIVE Grouped(_)
Grouped(ds) ==
    IF Len(ds) <= 3 THEN ds
    ELSE Grouped(SubSeq(ds, 1, Len(ds) - 3)) \o <<",">>
            \o SubSeq(ds, Len(ds) - 2, Len(ds))

\* The rupee sign and f"{amount:,.2f}" of an amount held in hundredths.
format_amount(a) ==
    <<"(rupee)">> \o Grouped(NatDigits(a \div 100)) \o <<".">>
        \o <<DigitChars[((a % 100) \div 10) + 1], DigitChars[(a % 10) + 1]>>

\* Lines 258-268: the text of the intermediate reply (the texts are held
\* without their emoji).
extracted_msg(reference_numbers, amounts) ==
    <<"**Extracted Data:**">>
    \o (IF reference_numbers # <<>>
        THEN <<"\n", "Reference No: ">>
             \o join([i \in 1..Len(reference_numbers) |-> <<reference_numbers[i]>>])
        ELSE <<>>)
    \o (IF amounts # <<>>
        THEN <<"\n", "Amounts: ">>
             \o join([i \in 1..Len(amounts) |-> format_amount(amounts[i])])
        ELSE <<>>)
    \o <<"\n", "Sending to API...">>

\* Mutant: the final reply of a failure does not say which failure.
final_msg_generic(api_result) ==
    IF api_result.success THEN <<"**Successfully sent to API!**">>
    ELSE <<"**API call failed:** ">>

\* Lines 285-297: the text of the final reply (without the code fence
\* around the excerpt).
final_msg(api_result) ==
    IF api_result.success THEN <<"**Successfully sent to API!**">>
    ELSE <<"**API call failed:** ">> \o api_result.error
         \o (IF api_result.response # <<>>
             THEN <<"\n\n**Server Response:**\n">>
                  \o slice(api_result.response, ReplyExcerptLimit) \o <<"\n">>
             ELSE <<>>)
         \o (IF api_result.status_code # 0
             THEN <<"\n**Status Code:** ">> \o str(PyInt(api_result.status_code))
             ELSE <<>>)

\* The text each reply is sent with.
ReplyText(t, kind) ==
    CASE kind = "nothing_found" -> <<"No reference numbers or amounts found.">>
      [] kind = "extracted"     -> extracted_msg(t.reference_numbers, t.amounts)
      [] kind \in {"final_success", "final_error"} -> final_msg(t.api_result)
      [] kind = "welcome"       -> <<"**Transaction Bot Started!**">>
      [] OTHER                  -> <<>>

Reply(t, kind, detail, ok) ==
    [kind |-> kind, detail |-> detail, text |-> ReplyText(t, kind),
     chat_id |-> t.update.chat_id, token |-> SelfObj(t).token, ok |-> ok]

send_message(t, kind, detail, ok) ==
    [t EXCEPT !.replies = Append(@, Reply(t, kind, detail, ok))]

(***************************************************************************)
(* TransactionBot.process_message.                                         *)
(***************************************************************************)
\* bot.process_message(message) binds self to the global bot; lines 233-234
\* raise KeyError, caught by webhook's except, when the message has no chat.
CallProcessMessage(h) ==
    /\ th[h].pc = "call_process_message"
    /\ LET t == [th[h] EXCEPT !.self = [ref |-> "global", obj |-> NoBot]]
       IN  th' = [th EXCEPT ![h] =
                    IF t.update.has_chat THEN [t EXCEPT !.pc = "process_message"]
                    ELSE Raise(t, "KeyError")]
    /\ UNCHANGED <<globals, clock, ticks, phase, nreq, probe>>

\* Mutant: an unauthorized chat is answered instead of ignored.
ProcessMessage_verbose(h) ==
    /\ th[h].pc = "process_message"
    /\ LET t == th[h]
           reference_numbers == extract_reference_numbers(t.update.text)
           amounts == extract_money_amounts(t.update.text)
       IN  th' = [th EXCEPT ![h] =
                    IF ~is_authorized_chat(SelfObj(t).authorized_chat_id, t.update.chat_id)
                    THEN Respond(send_message([t EXCEPT !.authorized = "no"],
                                              "unauthorized", "none", TRUE), 200)
                    ELSE [t EXCEPT !.authorized = "yes",
                                   !.reference_numbers = reference_numbers,
                                   !.amounts = amounts,
                                   !.pc = IF reference_numbers = <<>> /\ amounts = <<>>
                                          THEN "send_nothing_found"
                                          ELSE "send_extracted"]]
    /\ UNCHANGED <<globals, clock, ticks, phase, nreq, probe>>

\* Lines 237-268: the authorization check, then extraction.
ProcessMessage(h) ==
    /\ th[h].pc = "process_message"
    /\ LET t == th[h]
           reference_numbers == extract_reference_numbers(t.update.text)
           amounts == extract_money_amounts(t.update.text)
       IN  th' = [th EXCEPT ![h] =
                    IF ~is_authorized_chat(SelfObj(t).authorized_chat_id, t.update.chat_id)
                    THEN Respond([t EXCEPT !.authorized = "no"], 200)
                    ELSE [t EXCEPT !.authorized = "yes",
                                   !.reference_numbers = reference_numbers,
                                   !.amounts = amounts,
                                   !.pc = IF reference_numbers = <<>> /\ amounts = <<>>
                                          THEN "send_nothing_found"
                                          ELSE "send_extracted"]]
    /\ UNCHANGED <<globals, clock, ticks, phase, nreq, probe>>

\* Mutant: the return after the "nothing found" reply is missing.
SendNothingFound_fallthrough(h, env) ==
    /\ th[h].pc = "send_nothing_found"
    /\ \E ok \in env.sent :
        th' = [th EXCEPT ![h] =
                [send_message(th[h], "nothing_found", "none", ok) EXCEPT !.pc = "send_extracted"]]
    /\ UNCHANGED <<globals, clock, ticks, phase, nreq, probe>>

\* Lines 247-256.
SendNothingFound(h, env) ==
    /\ th[h].pc = "send_nothing_found"
    /\ \E ok \in env.sent :
        th' = [th EXCEPT ![h] = Respond(send_message(th[h], "nothing_found", "none", ok), 200)]
    /\ UNCHANGED <<globals, clock, ticks, phase, nreq, probe>>

\* Lines 258-271.
SendExtracted(h, env) ==
    /\ th[h].pc = "send_extracted"
    /\ \E ok \in env.sent :
        th' = [th EXCEPT ![h] =
                [send_message(th[h], "extracted", "none", ok) EXCEPT !.pc = "call_external_api"]]
    /\ UNCHANGED <<globals, clock, ticks, phase, nreq, probe>>

\* Mutant: the payload takes the last element of each sequence.
Payload_last(reference_numbers, amounts) ==
    [utr |-> IF reference_numbers # <<>>
             THEN reference_numbers[Len(reference_numbers)] ELSE "",
     amount |-> IF amounts # <<>> THEN amounts[Len(amounts)] ELSE 0,
     vendor_id |-> VENDOR_ID]

\* call_external_api, lines 169-177: the payload.
Payload(reference_numbers, amounts) ==
    [utr |-> IF reference_numbers # <<>> THEN reference_numbers[1] ELSE "",
     amount |-> IF amounts # <<>> THEN amounts[1] ELSE 0,
     vendor_id |-> VENDOR_ID]

\* response.json() on the bodies of the 200 answers above: the object
\* parses, the empty body and the page of HTML raise.
json(text) ==
    CASE text = JsonText -> [ok |-> TRUE, value |-> "{}"]
      [] text \in {<<>>, HtmlText} -> [ok |-> FALSE, value |-> "none"]

\* Lines 197-213: the dictionary returned for an outcome of the POST; parsed
\* says whether a 200 answer's body was parsed (when it was not, this is the
\* result of the handler of RequestException).
ApiResult(o, parsed) ==
    CASE o.kind = "timeout" ->
            [NoResult EXCEPT !.error = <<"API request timed out">>]
      [] o.kind = "network" ->
            [NoResult EXCEPT !.error = <<"Network error: ", "Connection refused">>]
      [] o.kind = "response" /\ o.status_code = 200 /\ parsed ->
            [NoResult EXCEPT !.success = TRUE, !.data = json(o.text).value]
      [] o.kind = "response" /\ o.status_code = 200 /\ ~parsed ->
            [NoResult EXCEPT !.error = <<"Network error: ", "Expecting value">>]
      [] o.kind = "response" /\ o.status_code # 200 ->
            [NoResult EXCEPT
                !.error = <<"API returned status ">> \o str(PyInt(o.status_code)),
                !.response = slice(o.text, ExcerptLimit),
                !.status_code = o.status_code]

\* The return statement that gave the result.
ApiClass(o, parsed) ==
    CASE o.kind = "timeout" -> "timeout"
      [] o.kind = "network" -> "network_error"
      [] o.kind = "response" /\ o.status_code = 200 /\ parsed -> "success"
      [] o.kind = "response" /\ o.status_code = 200 /\ ~parsed -> "network_error"
      [] o.kind = "response" /\ o.status_code # 200 -> "non_ok_status"

\* call_external_api, lines 185-213: the POST and the result it returns.
\* response.json() of a 200 answer that is not JSON raises; the exception is
\* a RequestException (the "Network error" result) or a plain ValueError
\* (which leaves process_message and is caught by webhook) depending on the
\* version of requests.
CallExternalApi(h, env) ==
    /\ th[h].pc = "call_external_api"
    /\ \E o \in env.relay, caught \in BOOLEAN :
        LET is200  == o.kind = "response" /\ o.status_code = 200
            parsed == is200 /\ json(o.text).ok
            t == [th[h] EXCEPT
                    !.relays = Append(@, Payload(th[h].reference_numbers, th[h].amounts)),
                    !.http = o]
        IN  /\ ~(is200 /\ ~parsed) => caught
            /\ th' = [th EXCEPT ![h] =
                        IF ~caught THEN Raise([t EXCEPT !.api = "raised"], "ValueError")
                        ELSE [t EXCEPT !.api = ApiClass(o, parsed),
                                       !.api_result = ApiResult(o, parsed),
                                       !.pc = "send_final"]]
    /\ UNCHANGED <<globals, clock, ticks, phase, nreq, probe>>

\* Mutant: a failed relay call is tried once more before the final reply.
SendFinal_retry(h, env) ==
    /\ th[h].pc = "send_final"
    /\ \E ok \in env.sent :
        th' = [th EXCEPT ![h] =
                IF th[h].api # "success" /\ Len(th[h].relays) < 2
                THEN [th[h] EXCEPT !.pc = "call_external_api"]
                ELSE Respond(send_message(th[h],
                                          IF th[h].api = "success" THEN "final_success"
                                                                   ELSE "final_error",
                                          th[h].api, ok), 200)]
    /\ UNCHANGED <<globals, clock, ticks, phase, nreq, probe>>

\* Lines 284-299.
SendFinal(h, env) ==
    /\ th[h].pc = "send_final"
    /\ \E ok \in env.sent :
        th' = [th EXCEPT ![h] =
                Respond(send_message(th[h],
                                     IF th[h].api = "success" THEN "final_success"
                                                              ELSE "final_error",
                                     th[h].api, ok), 200)]
    /\ UNCHANGED <<globals, clock, ticks, phase, nreq, probe>>

(***************************************************************************)
(* TransactionBot.process_start_command.                                   *)
(***************************************************************************)
CallProcessStart(h) ==
    /\ th[h].pc = "call_process_start"
    /\ th' = [th EXCEPT ![h].self = [ref |-> "global", obj |-> NoBot],
                        ![h].pc = "process_start_command"]
    /\ UNCHANGED <<globals, clock, ticks, phase, nreq, probe>>

\* Lines 305-309.
ProcessStartCommand(h) ==
    /\ th[h].pc = "process_start_command"
    /\ LET t == th[h]
       IN  th' = [th EXCEPT ![h] =
                    IF ~is_authorized_chat(SelfObj(t).authorized_chat_id, t.update.chat_id)
                    THEN Respond([t EXCEPT !.authorized = "no"], 200)
                    ELSE [t EXCEPT !.authorized = "yes", !.pc = "send_welcome"]]
    /\ UNCHANGED <<globals, clock, ticks, phase, nreq, probe>>

\* Lines 311-323.
SendWelcome(h, env) ==
    /\ th[h].pc = "send_welcome"
    /\ \E ok \in env.sent :
        th' = [th EXCEPT ![h] = Respond(send_message(th[h], "welcome", "none", ok), 200)]
    /\ UNCHANGED <<globals, clock, ticks, phase, nreq, probe>>

(***************************************************************************)
(* Startup and the Flask routes.                                           *)
(***************************************************************************)
\* app.py (Gunicorn): the module is imported, the __main__ block does not
\* run, and the server accepts requests with the globals still None.
StartApp ==
    /\ phase = "init"
    /\ phase' = "serving"
    /\ UNCHANGED <<globals, clock, ticks, nreq, th, probe>>

\* __main__, line 522: fetch_bot_configuration(VENDOR_ID), not forced.
StartMain ==
    /\ phase = "init"
    /\ phase' = "boot"
    /\ th' = [th EXCEPT ![1] = [IdleThread EXCEPT !.kind = "main", !.pc = "fetch_begin"]]
    /\ UNCHANGED <<globals, clock, ticks, nreq, probe>>

Accept(h) ==
    /\ phase = "serving"
    /\ th[h].pc = "idle"
    /\ nreq < MaxRequests
    /\ nreq' = nreq + 1

\* Mutant: the fetch of webhook is not forced.
Webhook_cached(h, env) ==
    /\ Accept(h)
    /\ \E u \in env.updates :
        LET t == [IdleThread EXCEPT !.kind = "webhook", !.update = u, !.force = FALSE]
        IN  th' = [th EXCEPT ![h] =
                    IF u.kind = "empty" THEN Respond(t, 400)
                    ELSE [t EXCEPT !.pc = "fetch_begin"]]
    /\ UNCHANGED <<globals, clock, ticks, phase, probe>>

\* webhook, lines 351-360.  Where the specification keeps histories,
\* arrived records the AUTHORIZED_CHAT_ID in memory when the event arrives.
Webhook(h, env) ==
    /\ Accept(h)
    /\ \E u \in env.updates :
        LET t == [IdleThread EXCEPT
                    !.kind = "webhook", !.update = u, !.force = TRUE,
                    !.arrived = IF env.history THEN AUTHORIZED_CHAT_ID ELSE PyNone]
        IN  th' = [th EXCEPT ![h] =
                    IF u.kind = "empty" THEN Respond(t, 400)
                    ELSE [t EXCEPT !.pc = "fetch_begin"]]
    /\ UNCHANGED <<globals, clock, ticks, phase, probe>>

\* Mutant: the manual refresh accepts a fresh cache.
RefreshConfig_cached(h) ==
    /\ Accept(h)
    /\ th' = [th EXCEPT ![h] =
                [IdleThread EXCEPT !.kind = "refresh_config", !.force = FALSE,
                                   !.pc = "fetch_begin"]]
    /\ UNCHANGED <<globals, clock, ticks, phase, probe>>

\* refresh_config / refresh_bot_configuration, line 83.
RefreshConfig(h) ==
    /\ Accept(h)
    /\ th' = [th EXCEPT ![h] =
                [IdleThread EXCEPT !.kind = "refresh_config", !.force = TRUE,
                                   !.pc = "fetch_begin"]]
    /\ UNCHANGED <<globals, clock, ticks, phase, probe>>

\* set_webhook and webhook_info, lines 428 and 465.
SetWebhook(h) ==
    /\ Accept(h)
    /\ \E k \in {"set_webhook", "webhook_info"} :
        th' = [th EXCEPT ![h] = [IdleThread EXCEPT !.kind = k, !.pc = "check_bot"]]
    /\ UNCHANGED <<globals, clock, ticks, phase, probe>>

\* "if not BOT_TOKEN or not bot": fetch, not forced, and build the bot.
CheckBot(h) ==
    /\ th[h].pc = "check_bot"
    /\ th' = [th EXCEPT ![h].pc =
                IF ~truthy(BOT_TOKEN) \/ ~bot.some THEN "fetch_begin" ELSE "telegram_api"]
    /\ UNCHANGED <<globals, clock, ticks, phase, nreq, probe>>

\* Lines 435-457 and 472-482: the call to Telegram and the answer's code.
TelegramApi(h) ==
    /\ th[h].pc = "telegram_api"
    /\ \E code \in {200, 400, 500} :
        th' = [th EXCEPT ![h] = Respond(th[h], code)]
    /\ UNCHANGED <<globals, clock, ticks, phase, nreq, probe>>

\* bot_config; the age computed at lines 490-491 is only returned.
BotConfig(h) ==
    /\ Accept(h)
    /\ th' = [th EXCEPT ![h] = [IdleThread EXCEPT !.kind = "bot_config", !.pc = "read_token"]]
    /\ UNCHANGED <<globals, clock, ticks, phase, probe>>

\* Line 494.
ReadToken(h) ==
    /\ th[h].pc = "read_token"
    /\ th' = [th EXCEPT ![h].seen.bot_token = BOT_TOKEN, ![h].pc = "read_chat"]
    /\ UNCHANGED <<globals, clock, ticks, phase, nreq, probe>>

\* Line 495.
ReadChat(h) ==
    /\ th[h].pc = "read_chat"
    /\ th' = [th EXCEPT ![h].seen.chat_id = AUTHORIZED_CHAT_ID, ![h].pc = "read_time"]
    /\ UNCHANGED <<globals, clock, ticks, phase, nreq, probe>>

\* Lines 498-501.
ReadTime(h) ==
    /\ th[h].pc = "read_time"
    /\ th' = [th EXCEPT ![h] =
                Respond([th[h] EXCEPT !.seen.fetched_at = LAST_CONFIG_FETCH], 200)]
    /\ UNCHANGED <<globals, clock, ticks, phase, nreq, probe>>

\* The response is sent and the thread takes the next request.
Finish(h) ==
    /\ th[h].pc = "done"
    /\ th' = [th EXCEPT ![h] = IdleThread]
    /\ UNCHANGED <<globals, clock, ticks, phase, nreq, probe>>

(***************************************************************************)
(* Specifications.                                                         *)
(***************************************************************************)
\* The inputs a specification draws from.
AllInputs ==
    [updates |-> Updates, config |-> ConfigResponses,
     relay |-> RelayOutcomes, sent |-> BOOLEAN, history |-> FALSE]

Step(h, env) ==
    \/ FetchBegin(h) \/ FetchGet(h, env)
    \/ FetchStoreToken(h) \/ FetchStoreChat(h) \/ FetchStoreTime(h)
    \/ LoadToken(h) \/ LoadChat(h) \/ StoreBot(h)
    \/ MigrateGlobal(h) \/ MigrateBot(h)
    \/ CallProcessMessage(h) \/ ProcessMessage(h)
    \/ SendNothingFound(h, env) \/ SendExtracted(h, env)
    \/ CallExternalApi(h, env) \/ SendFinal(h, env)
    \/ CallProcessStart(h) \/ ProcessStartCommand(h) \/ SendWelcome(h, env)
    \/ CheckBot(h) \/ TelegramApi(h)
    \/ ReadToken(h) \/ ReadChat(h) \/ ReadTime(h)
    \/ Finish(h)

Request(h, env) ==
    \/ Webhook(h, env) \/ RefreshConfig(h) \/ SetWebhook(h) \/ BotConfig(h)

\* Requests handled one at a time, by one thread.
SeqNext ==
    \/ StartApp \/ StartMain
    \/ Request(1, AllInputs) \/ Step(1, AllInputs)

SeqSpec == Init /\ [][SeqNext]_vars

\* The inputs of the concurrent specification: two chats, a configuration
\* that changes between fetches, a fetch that fails, a migration.
ConcUpdates ==
    { u \in Updates :
        /\ u.kind = "message" /\ u.has_chat /\ u.has_text
        /\ \/ u.chat_id = PyInt(1) /\ u.text = TxtBoth
           \/ u.chat_id = PyInt(1) /\ u.text = TxtStart /\ ~u.has_migrate
           \/ u.chat_id = PyInt(2) /\ u.text = TxtNone /\ ~u.has_migrate }

ConcInputs ==
    [updates |-> ConcUpdates,
     config |-> { r \in ConfigResponses :
                    \/ r.kind = "ok" /\ truthy(r.body.bot_token)
                    \/ r.kind = "status" },
     relay |-> { o \in RelayOutcomes :
                    \/ o.kind = "timeout"
                    \/ o.status_code = 200 /\ o.text = JsonText },
     sent |-> {TRUE}, history |-> FALSE]

\* Requests handled concurrently by the threads of the server.
Next ==
    \/ StartApp \/ StartMain
    \/ \E h \in Handlers : Request(h, ConcInputs) \/ Step(h, ConcInputs)

Spec == Init /\ [][Next]_vars

\* The inputs of the specification with fairness: every kind of route
\* through webhook (empty body, other update, message with and without
\* text, chat and migration, the two commands, a text with and without
\* data, a channel post), and every kind of outcome of the three network
\* operations.
LiveUpdates ==
    { u \in Updates :
        \/ u.kind \in {"empty", "other"}
        \/ /\ u.kind \in {"message", "channel_post"}
           /\ u.has_text => u.text \in {TxtStart, TxtHelp, TxtNone, TxtBoth}
           /\ u.has_chat => (u.chat_id = PyInt(2) <=> u.has_migrate) }

LiveInputs ==
    [updates |-> LiveUpdates, config |-> ConfigResponses,
     relay |-> { o \in RelayOutcomes : o.text \in {JsonText, HtmlText, <<>>} },
     sent |-> BOOLEAN, history |-> FALSE]

LiveNext ==
    \/ StartApp \/ StartMain
    \/ Request(1, LiveInputs) \/ Step(1, LiveInputs)

\* A handler that has a next step takes it: the thread is scheduled, and
\* requests.get and requests.post are called with timeout=10 (lines 54, 190
\* and 225), so each returns an answer or raises.
LiveSpec == Init /\ [][LiveNext]_vars /\ WF_vars(Step(1, LiveInputs))

\* A message of chat 0 that carries "migrate_to_chat_id": 0 (the body of a
\* POST to /webhook is whatever JSON the sender wrote).
ZeroMigration ==
    [kind |-> "message", has_chat |-> TRUE, chat_id |-> PyInt(0),
     has_text |-> TRUE, text |-> TxtBoth,
     has_migrate |-> TRUE, migrate_to_chat_id |-> PyInt(0)]

\* The inputs of the specification that keeps, for each event, what was in
\* memory when it arrived: events of every kind with a chat and a text, with
\* and without migrate_to_chat_id, every answer of the configuration
\* endpoint, a relay that accepts or times out.
HistInputs ==
    [updates |-> { u \in Updates :
                    u.has_chat /\ u.has_text
                        /\ u.text \in {TxtStart, TxtNone, TxtBoth} }
                 \cup {ZeroMigration},
     config |-> ConfigResponses,
     relay |-> { o \in RelayOutcomes :
                    \/ o.kind = "timeout"
                    \/ o.status_code = 200 /\ o.text = JsonText },
     sent |-> {TRUE}, history |-> TRUE]

HistNext ==
    \/ StartApp \/ StartMain
    \/ Request(1, HistInputs) \/ Step(1, HistInputs)

HistSpec == Init /\ [][HistNext]_vars

(***************************************************************************)
(* is_authorized_chat applied on its own to every pair of the values       *)
(* below: the ids of test_chat_id_validation and the edges of str() and    *)
(* of truthiness.                                                          *)
(***************************************************************************)
AuthValues ==
    { PyNone, PyStr(<<>>), PyInt(0), PyInt(1), PyInt(-1), PyInt(651770430),
      PyStr(<<"0">>), PyStr(<<"1">>), PyStr(<<"-", "1">>), PyStr(<<"0", "1">>),
      PyStr(<<"6", "5", "1", "7", "7", "0", "4", "3", "0">>),
      PyStr(<<"1", "2", "3", "4", "5", "6", "7", "8", "9">>),
      PyStr(<<"N", "o", "n", "e">>) }

AuthInit ==
    /\ BOT_TOKEN = PyNone
    /\ AUTHORIZED_CHAT_ID = PyNone
    /\ LAST_CONFIG_FETCH = PyNone
    /\ bot = NoBot
    /\ clock = StartTime
    /\ ticks = 0
    /\ phase = "init"
    /\ nreq = 0
    /\ th = [h \in Handlers |-> IdleThread]
    /\ probe \in { [fn |-> "is_authorized_chat", authorized |-> a, chat_id |-> c,
                    done |-> FALSE, result |-> FALSE] : a \in AuthValues, c \in AuthValues }

AuthApply ==
    /\ probe.fn = "is_authorized_chat"
    /\ ~probe.done
    /\ probe' = [probe EXCEPT
                    !.done = TRUE,
                    !.result = is_authorized_chat(probe.authorized, probe.chat_id)]
    /\ UNCHANGED <<globals, clock, ticks, phase, nreq, th>>

AuthNext == AuthApply

AuthSpec == AuthInit /\ [][AuthNext]_vars

(***************************************************************************)
(* The two extraction methods applied on their own (lines 244-245 of       *)
(* process_message) to texts of characters: the texts made of at most      *)
(* MaxTokens of the tokens below, and the texts of the specification's     *)
(* scenarios.                                                              *)
(***************************************************************************)
MaxTokens == 3

\* Pieces of transaction messages.  A number of eight digits stands between
\* spaces, so that no amount of a text reaches 2^31 hundredths.
Tokens ==
    { <<"U", "P", "I", " ">>,
      <<"R", "e", "f", " ", "n", "o", " ">>,
      <<"T", "x", "n", " ", "I", "D", ":">>,
      <<" ", "1", "2", "3", "4", "5", "6", "7", "8", " ">>,
      <<" ", "1", "1", "1", "1", "1", "1", "1", "1", " ">>,
      <<"R", "s", ".">>,
      <<"I", "N", "R", " ">>,
      <<"2", ".", "0", "0">>,
      <<"2">>,
      <<"1", ",", "0", "0", "0", " ">>,
      <<",">>,
      <<" ", "r", "u", "p", "e", "e", "s", " ">> }

\* 'Ref 123456789012345678901'
LongText ==
    <<"R", "e", "f", " ", "1", "2", "3", "4", "5", "6", "7", "8", "9", "0",
      "1", "2", "3", "4", "5", "6", "7", "8", "9", "0", "1">>

\* 'credited for Rs.2.00 on 12-09-25 and debited from a/c no. XX0076 (UPI Ref no 690518190930)'
SmsText ==
    <<"c", "r", "e", "d", "i", "t", "e", "d", " ", "f", "o", "r", " ", "R",
      "s", ".", "2", ".", "0", "0", " ", "o", "n", " ", "1", "2", "-", "0",
      "9", "-", "2", "5", " ", "a", "n", "d", " ", "d", "e", "b", "i", "t",
      "e", "d", " ", "f", "r", "o", "m", " ", "a", "/", "c", " ", "n", "o",
      ".", " ", "X", "X", "0", "0", "7", "6", " ", "(", "U", "P", "I", " ",
      "R", "e", "f", " ", "n", "o", " ", "6", "9", "0", "5", "1", "8", "1",
      "9", "0", "9", "3", "0", ")">>

\* 'Rs , INR 1,000'
CommaText ==
    <<"R", "s", " ", ",", " ", "I", "N", "R", " ", "1", ",", "0", "0", "0">>

\* 'Txn ID 11111111 Ref no 22222222 INR 1,000 Rs 5.00'
TwoText ==
    <<"T", "x", "n", " ", "I", "D", " ", "1", "1", "1", "1", "1", "1", "1",
      "1", " ", "R", "e", "f", " ", "n", "o", " ", "2", "2", "2", "2", "2",
      "2", "2", "2", " ", "I", "N", "R", " ", "1", ",", "0", "0", "0", " ",
      "R", "s", " ", "5", ".", "0", "0">>

\* 'Payment of (rupee)15,000 completed via UTR123456789'
ScenarioAText ==
    <<"P", "a", "y", "m", "e", "n", "t", " ", "o", "f", " ", "(rupee)",
      "1", "5", ",", "0", "0", "0", " ", "c", "o", "m", "p", "l", "e", "t",
      "e", "d", " ", "v", "i", "a", " ", "U", "T", "R", "1", "2", "3", "4",
      "5", "6", "7", "8", "9">>

ExtractTexts ==
    { Flatten(ts) : ts \in UNION { [1..n -> Tokens] : n \in 0..MaxTokens } }
    \cup {SmsText, CommaText, TwoText, ScenarioAText, LongText}

NoFound == [refs |-> NoRefs, amts |-> NoAmts]

ExtractInit ==
    /\ BOT_TOKEN = PyNone
    /\ AUTHORIZED_CHAT_ID = PyNone
    /\ LAST_CONFIG_FETCH = PyNone
    /\ bot = NoBot
    /\ clock = StartTime
    /\ ticks = 0
    /\ phase = "init"
    /\ nreq = 0
    /\ th = [h \in Handlers |-> IdleThread]
    /\ probe \in { [fn |-> "extract", text |-> x, step |-> 0, found |-> NoFound,
                    reference_numbers |-> <<>>, amounts |-> <<>>] :
                    x \in ExtractTexts }

\* Line 244: reference_numbers = self.extract_reference_numbers(text).
ExtractReferences ==
    /\ probe.fn = "extract"
    /\ probe.step = 0
    /\ LET found == Scan(probe.text)
       IN  probe' = [probe EXCEPT
                        !.step = 1,
                        !.found = found,
                        !.reference_numbers = extract_reference_numbers(found)]
    /\ UNCHANGED <<globals, clock, ticks, phase, nreq, th>>

\* Line 245: amounts = self.extract_money_amounts(text).
ExtractAmounts ==
    /\ probe.fn = "extract"
    /\ probe.step = 1
    /\ probe' = [probe EXCEPT
                    !.step = 2,
                    !.amounts = extract_money_amounts(probe.found)]
    /\ UNCHANGED <<globals, clock, ticks, phase, nreq, th>>

ExtractNext == ExtractReferences \/ ExtractAmounts

ExtractSpec == ExtractInit /\ [][ExtractNext]_vars

(***************************************************************************)
(* telethon_userbot.py: fetch_runtime_config applied on its own to what    *)
(* the configuration API answers and to the environment of the process.    *)
(***************************************************************************)
\* "x or y" of Python.
Or(x, y) == IF truthy(x) THEN x ELSE y

\* str.isdigit() for ASCII text.
isdigit(cs) == cs # <<>> /\ \A i \in 1..Len(cs) : IsDigit(cs[i])

\* int(x) for an int or for a string of digits.
int(v) == IF v.tag = "int" THEN v.n ELSE DigitsVal(v.s, 0)

\* data = {}: every data.get(key) gives None.
NoData ==
    [api_id |-> PyNone, API_ID |-> PyNone, api_hash |-> PyNone, API_HASH |-> PyNone,
     chat_id |-> PyNone, AUTHORIZED_CHAT_ID |-> PyNone,
     source_bot_username |-> PyNone, SOURCE_BOT_USERNAME |-> PyNone,
     telethon_string_session |-> PyNone, TELETHON_STRING_SESSION |-> PyNone]

\* Lines 48-58: the body of a 200 answer, or {} for any other status and
\* for an exception.
RuntimeData(resp) == IF resp.kind = "ok" THEN resp.data ELSE NoData

\* Lines 61-77, with data the answer of the API and env the *_ENV globals.
fetch_runtime_config(resp, env) ==
    LET data == RuntimeData(resp)
        api_id == Or(Or(data.api_id, data.API_ID), env.API_ID)
        api_hash == Or(Or(data.api_hash, data.API_HASH), env.API_HASH)
        chat_id == Or(Or(data.chat_id, data.AUTHORIZED_CHAT_ID), env.AUTHORIZED_CHAT_ID)
        source_bot == Or(Or(data.source_bot_username, data.SOURCE_BOT_USERNAME),
                         env.SOURCE_BOT_USERNAME)
        string_session == Or(Or(data.telethon_string_session,
                                data.TELETHON_STRING_SESSION),
                             env.TELETHON_STRING_SESSION)
        api_id_int == IF api_id # PyNone /\ isdigit(str(api_id)) THEN int(api_id) ELSE 0
    IN  [api_id |-> PyInt(api_id_int),
         api_hash |-> Or(api_hash, PyStr(<<>>)),
         authorized_chat_id |-> IF chat_id # PyNone THEN PyStr(str(chat_id)) ELSE PyNone,
         source_bot_username |-> Or(source_bot, PyStr(<<>>)),
         telethon_string_session |-> Or(string_session, PyStr(<<>>))]

\* The JSON objects the API answers with: each key absent, or present with
\* a value that no environment value below equals.
RuntimeBodies ==
    [api_id : {PyNone, PyInt(11), PyStr(<<"1", "2">>)},
     API_ID : {PyNone, PyInt(13)},
     api_hash : {PyNone, PyStr(<<"h">>)},
     API_HASH : {PyNone},
     chat_id : {PyNone, PyInt(-100), PyStr(<<"@", "c">>)},
     AUTHORIZED_CHAT_ID : {PyNone, PyInt(-200)},
     source_bot_username : {PyNone, PyStr(<<>>), PyStr(<<"b", "o", "t">>)},
     SOURCE_BOT_USERNAME : {PyNone},
     telethon_string_session : {PyNone, PyStr(<<"s">>)},
     TELETHON_STRING_SESSION : {PyNone}]

RuntimeResponses ==
    [kind : {"ok"}, data : RuntimeBodies]
        \cup [kind : {"status", "exception"}, data : {NoData}]

\* Lines 30-38: os.getenv gives None (or the default '') for a variable
\* that is not set, and its text otherwise.
RuntimeEnvs ==
    [API_ID : {PyNone, PyStr(<<"7">>)},
     API_HASH : {PyNone, PyStr(<<"e">>)},
     AUTHORIZED_CHAT_ID : {PyNone, PyStr(<<"5">>)},
     SOURCE_BOT_USERNAME : {PyStr(<<>>), PyStr(<<"e", "b", "o", "t">>)},
     TELETHON_STRING_SESSION : {PyStr(<<>>), PyStr(<<"e", "s">>)}]

NoConfig ==
    [api_id |-> PyNone, api_hash |-> PyNone, authorized_chat_id |-> PyNone,
     source_bot_username |-> PyNone, telethon_string_session |-> PyNone]

RuntimeInit ==
    /\ BOT_TOKEN = PyNone
    /\ AUTHORIZED_CHAT_ID = PyNone
    /\ LAST_CONFIG_FETCH = PyNone
    /\ bot = NoBot
    /\ clock = StartTime
    /\ ticks = 0
    /\ phase = "init"
    /\ nreq = 0
    /\ th = [h \in Handlers |-> IdleThread]
    /\ probe \in { [fn |-> "fetch_runtime_config", resp |-> r, env |-> e,
                    done |-> FALSE, cfg |-> NoConfig] :
                    r \in RuntimeResponses, e \in RuntimeEnvs }

\* cfg = await fetch_runtime_config(), line 235.
RuntimeApply ==
    /\ probe.fn = "fetch_runtime_config"
    /\ ~probe.done
    /\ probe' = [probe EXCEPT
                    !.done = TRUE,
                    !.cfg = fetch_runtime_config(probe.resp, probe.env)]
    /\ UNCHANGED <<globals, clock, ticks, phase, nreq, th>>

RuntimeNext == RuntimeApply

RuntimeSpec == RuntimeInit /\ [][RuntimeNext]_vars

(***************************************************************************)
(* Properties.                                                             *)
(***************************************************************************)
\* The text Python's str() gives for each value used as an id, written out.
ExpectedStr(v) ==
    CASE v = PyNone -> "None"
      [] v = PyStr(<<>>) -> ""
      [] v = PyInt(0) -> "0"
      [] v = PyInt(1) -> "1"
      [] v = PyInt(2) -> "2"
      [] v = PyInt(-1) -> "-1"
      [] v = PyInt(651770430) -> "651770430"
      [] v = PyStr(<<"0">>) -> "0"
      [] v = PyStr(<<"1">>) -> "1"
      [] v = PyStr(<<"2">>) -> "2"
      [] v = PyStr(<<"-", "1">>) -> "-1"
      [] v = PyStr(<<"0", "1">>) -> "01"
      [] v = PyStr(<<"6", "5", "1", "7", "7", "0", "4", "3", "0">>) -> "651770430"
      [] v = PyStr(<<"1", "2", "3", "4", "5", "6", "7", "8", "9">>) -> "123456789"
      [] v = PyStr(<<"N", "o", "n", "e">>) -> "None"

\* The chat is the authorized one: an id is configured and both have the
\* same text.
Authorizes(authorized, chat_id) ==
    /\ authorized \notin {PyNone, PyStr(<<>>), PyInt(0)}
    /\ ExpectedStr(chat_id) = ExpectedStr(authorized)

Snapshot ==
    [bot_token |-> BOT_TOKEN, chat_id |-> AUTHORIZED_CHAT_ID,
     fetched_at |-> LAST_CONFIG_FETCH]

\* C1: an event whose chat is not the authorized one gets no reply and no
\* relay call: whenever a handler has sent a reply or made a relay call, its
\* authorization check has passed and the chat of its event is the
\* authorized chat; a handler whose check failed has sent and relayed nothing.
C1_UnauthorizedSilent ==
    \A h \in Handlers :
        /\ (th[h].replies # <<>> \/ th[h].relays # <<>>) =>
                /\ th[h].authorized = "yes"
                /\ Authorizes(AUTHORIZED_CHAT_ID, th[h].update.chat_id)
        /\ th[h].authorized = "no" =>
                /\ ~Authorizes(AUTHORIZED_CHAT_ID, th[h].update.chat_id)
                /\ th[h].pc = "done" /\ th[h].resp = 200

\* C1 witness: a text message and a /start from an unauthorized chat were
\* handled to the end with no reply.
C1_Witness ==
    \E h \in Handlers :
        /\ th[h].pc = "done" /\ th[h].kind = "webhook" /\ th[h].authorized = "no"
        /\ th[h].update.has_text /\ th[h].update.text = TxtBoth
        /\ truthy(AUTHORIZED_CHAT_ID)
        /\ th[h].replies = <<>> /\ th[h].relays = <<>>

\* C2 as stated: is_authorized_chat is true iff the authorized id is present
\* (not None) and non-empty (not "") and the two ids have the same text.
C2_Original ==
    (probe.fn = "is_authorized_chat" /\ probe.done) =>
        (probe.result <=>
            /\ probe.authorized \notin {PyNone, PyStr(<<>>)}
            /\ ExpectedStr(probe.chat_id) = ExpectedStr(probe.authorized))

\* C2 amended: is_authorized_chat is true iff the authorized id is truthy
\* (not None, not "" and not the integer 0) and the two ids have the same
\* text; so an int and its decimal string are one id as the candidate, and
\* as the authorized id when it is not 0.
C2_AuthorizedIffTruthyAndSameText ==
    (probe.fn = "is_authorized_chat" /\ probe.done) =>
        (probe.result <=>
            /\ probe.authorized \notin {PyNone, PyStr(<<>>), PyInt(0)}
            /\ ExpectedStr(probe.chat_id) = ExpectedStr(probe.authorized))

\* C2 witness: the int id against its decimal string is authorized.
C2_Witness ==
    /\ probe.done /\ probe.result
    /\ probe.chat_id = PyInt(651770430)
    /\ probe.authorized = PyStr(<<"6", "5", "1", "7", "7", "0", "4", "3", "0">>)

\* A webhook request that carries an update (a non-empty body).
IsEvent(t) == t.kind = "webhook" /\ t.update.kind \notin {"none", "empty"}

\* C3: every webhook event makes one GET of the configuration, whatever the
\* age of the cached snapshot, and the GET has been answered with success
\* before the event's authorization check is evaluated.
C3_ForcedFetchBeforeAuthorization ==
    \A h \in Handlers :
        IsEvent(th[h]) =>
            /\ th[h].pc \notin {"fetch_begin", "fetch_get"} => th[h].gets = 1
            /\ th[h].pc \in {"process_message", "process_start_command"} =>
                    th[h].fetch = "ok"
            /\ th[h].authorized # "unchecked" => th[h].gets = 1 /\ th[h].fetch = "ok"

\* C3 witness: a webhook event's GET was answered while the snapshot was
\* younger than 300 seconds.
C3_Witness ==
    \E h \in Handlers :
        /\ IsEvent(th[h]) /\ th[h].pc = "fetch_store_token" /\ th[h].gets = 1
        /\ th[h].before.fetched_at # PyNone
        /\ th[h].current_time - th[h].before.fetched_at.n < 300

\* A not-forced call of fetch_bot_configuration has passed line 40 and its
\* locals are still there.
NotForcedCall(t) ==
    /\ t.kind \in {"main", "set_webhook", "webhook_info"}
    /\ \/ t.pc \in {"fetch_get", "fetch_store_token", "fetch_store_chat",
                    "fetch_store_time", "load_token"}
       \/ t.pc \in {"done", "exited"} /\ t.fetch \in ConfigFailures

\* C4: a not-forced fetch uses the cache (no GET, success, globals as before
\* the call) exactly when a snapshot exists and is younger than 300 seconds;
\* otherwise it goes to the network.
C4_CacheWithinTtl ==
    \A h \in Handlers :
        NotForcedCall(th[h]) =>
            LET t == th[h]
                young == /\ t.before.fetched_at # PyNone
                         /\ t.current_time - t.before.fetched_at.n < 300
            IN  /\ young => /\ t.fetch = "cached" /\ t.gets = 0
                            /\ t.pc = "load_token"
                            /\ Snapshot = t.before
                /\ ~young => \/ t.pc = "fetch_get" /\ t.gets = 0
                             \/ t.gets = 1 /\ t.fetch # "cached"

\* C4 witness: a not-forced call 299 seconds after the fetch used the cache.
C4_Witness ==
    \E h \in Handlers :
        /\ NotForcedCall(th[h]) /\ th[h].fetch = "cached"
        /\ th[h].current_time - th[h].before.fetched_at.n = 299

\* C5: a fetch answered 200 with a JSON object returns success with the
\* globals holding the body's bot_token and chat_id and the call's time,
\* also when the chat id differs from the one stored before.
C5_SuccessReplacesSnapshot ==
    \A h \in Handlers :
        /\ (th[h].pc = "load_token" /\ th[h].fetch = "ok") =>
                /\ BOT_TOKEN = th[h].body.bot_token
                /\ AUTHORIZED_CHAT_ID = th[h].body.chat_id
                /\ LAST_CONFIG_FETCH = PyInt(th[h].current_time)
        /\ (th[h].fetch = "ok" /\ th[h].body # NoBody) =>
                th[h].pc \in {"fetch_store_token", "fetch_store_chat",
                              "fetch_store_time", "load_token"}

\* C5 witness: a successful fetch replaced a chat id by a different one.
C5_Witness ==
    \E h \in Handlers :
        /\ th[h].pc = "load_token" /\ th[h].fetch = "ok"
        /\ truthy(th[h].before.chat_id)
        /\ th[h].before.chat_id # th[h].body.chat_id
        /\ AUTHORIZED_CHAT_ID = th[h].body.chat_id

\* C6: a fetch that ends in a non-200 status, an exception or a 200 body
\* that is not a JSON object returns failure (the route answers 500, __main__
\* exits) and leaves the three globals as they were before the call.
C6_FailureKeepsSnapshot ==
    \A h \in Handlers :
        th[h].fetch \in ConfigFailures =>
            /\ th[h].pc \in {"done", "exited"}
            /\ th[h].pc = "done" => th[h].resp = 500
            /\ th[h].gets = 1
            /\ Snapshot = th[h].before

\* C6 witness: a fetch failed on a body that is not JSON while a snapshot
\* was stored.
C6_Witness ==
    \E h \in Handlers :
        /\ th[h].fetch = "bad_json" /\ th[h].pc = "done"
        /\ truthy(th[h].before.bot_token) /\ th[h].before.fetched_at # PyNone
        /\ Snapshot = th[h].before

\* A token read together with a chat id that no configuration served with
\* that token and no migration set.
Torn(token, chat_id) ==
    /\ truthy(token) /\ chat_id # PyNone
    /\ chat_id \notin MigrateIds
    /\ ~\E b \in ConfigBodies : b.bot_token = token /\ b.chat_id = chat_id

\* C7: no reader (a handler building its bot from the globals, the status
\* route) sees the token of one configuration with the chat id of another.
C7_NoTornSnapshot ==
    \A h \in Handlers :
        /\ th[h].pc = "store_bot" => ~Torn(th[h].token_arg, th[h].chat_arg)
        /\ (th[h].kind = "bot_config" /\ th[h].pc = "done") =>
                ~Torn(th[h].seen.bot_token, th[h].seen.chat_id)

\* C8: every write of LAST_CONFIG_FETCH stores a time not earlier than the
\* one stored before.
C8_FetchedAtNonDecreasing ==
    [][LAST_CONFIG_FETCH # PyNone => LAST_CONFIG_FETCH'.n >= LAST_CONFIG_FETCH.n]_vars

IsTextEvent(u) ==
    /\ u.kind \in UpdateKinds /\ u.has_chat /\ u.has_text
    /\ u.kind = "message" => ~u.text.slash

\* C10: an authorized text event whose extraction finds nothing ends with
\* the one "nothing found" reply and no relay call.
C10_NothingFoundOnce ==
    \A h \in Handlers :
        LET t == th[h]
        IN  ( /\ IsEvent(t) /\ IsTextEvent(t.update)
              /\ t.authorized = "yes"
              /\ extract_reference_numbers(t.update.text) = <<>>
              /\ extract_money_amounts(t.update.text) = <<>> ) =>
                /\ t.relays = <<>>
                /\ t.pc \in {"send_nothing_found", "done"}
                /\ t.pc = "send_nothing_found" => t.replies = <<>>
                /\ t.pc = "done" =>
                        /\ Len(t.replies) = 1
                        /\ t.replies[1].kind = "nothing_found"
                        /\ t.resp = 200

\* C10 witness: the text "Rs ," (a capture float() rejects) from the
\* authorized chat got the one "nothing found" reply.
C10_Witness ==
    \E h \in Handlers :
        /\ IsEvent(th[h]) /\ th[h].pc = "done" /\ th[h].authorized = "yes"
        /\ th[h].update.text = TxtComma
        /\ Len(th[h].replies) = 1 /\ th[h].replies[1].kind = "nothing_found"
        /\ th[h].relays = <<>>

\* C11: an authorized text event whose extraction finds a reference number
\* or an amount ends with exactly two replies, the "extracted data" reply
\* and then one final reply, whatever the relay endpoint answered.
C11_TwoRepliesPerExtraction ==
    \A h \in Handlers :
        LET t == th[h]
        IN  ( /\ IsEvent(t) /\ IsTextEvent(t.update)
              /\ t.authorized = "yes" /\ t.pc = "done"
              /\ \/ extract_reference_numbers(t.update.text) # <<>>
                 \/ extract_money_amounts(t.update.text) # <<>> ) =>
                /\ Len(t.replies) = 2
                /\ t.replies[1].kind = "extracted"
                /\ t.replies[2].kind \in {"final_success", "final_error"}

\* The classes of result call_external_api returns.
ApiClasses == {"success", "timeout", "network_error", "non_ok_status"}

\* C12: within one event the steps come in the order configuration fetch,
\* authorization check, extraction, "extracted data" reply, relay POST,
\* final reply, each at most once: one GET, answered before the check; data
\* extracted and replies sent only after the check passed; the relay POST
\* made once, after the intermediate reply was sent and nothing else; the
\* final reply sent second and last, after the relay call has returned.
C12_StepOrder ==
    /\ [](\A h \in Handlers :
            LET t == th[h]
            IN  IsEvent(t) =>
                    /\ t.gets <= 1
                    /\ t.authorized # "unchecked" => t.gets = 1 /\ t.fetch = "ok"
                    /\ (t.reference_numbers # <<>> \/ t.amounts # <<>> \/ t.replies # <<>>)
                            => t.authorized = "yes"
                    /\ Len(t.relays) <= 1 /\ Len(t.replies) <= 2
                    /\ t.relays # <<>> =>
                            /\ t.replies # <<>> /\ t.replies[1].kind = "extracted"
                            /\ t.api # "none"
                    /\ t.api # "none" => Len(t.relays) = 1
                    /\ \A i \in 1..Len(t.replies) :
                            /\ t.replies[i].kind = "extracted" => i = 1
                            /\ t.replies[i].kind \in {"final_success", "final_error"} =>
                                    /\ i = 2 /\ t.api \in ApiClasses
                                    /\ t.pc = "done")
    /\ [][\A h \in Handlers :
            LET t == th[h]
                n == th'[h]
            IN  (IsEvent(t) /\ IsEvent(n) /\ t.pc # "done") =>
                    /\ n.authorized # t.authorized =>
                            /\ t.authorized = "unchecked" /\ t.fetch = "ok"
                            /\ t.replies = <<>> /\ t.relays = <<>>
                    /\ n.relays # t.relays =>
                            /\ t.relays = <<>> /\ n.replies = t.replies
                            /\ Len(t.replies) = 1 /\ t.replies[1].kind = "extracted"
                    /\ n.replies # t.replies =>
                            /\ n.relays = t.relays
                            /\ Len(n.replies) = Len(t.replies) + 1
                            /\ Len(t.replies) = 1 =>
                                    /\ t.api \in ApiClasses /\ Len(t.relays) = 1]_vars

\* C12 witness: an event ended with one GET, the two replies and the one
\* relay POST, which timed out.
C12_Witness ==
    \E h \in Handlers :
        /\ IsEvent(th[h]) /\ th[h].pc = "done" /\ th[h].gets = 1
        /\ th[h].api = "timeout" /\ Len(th[h].relays) = 1
        /\ Len(th[h].replies) = 2 /\ th[h].replies[1].kind = "extracted"
        /\ th[h].replies[2].kind = "final_error"

\* C13: every POST to the relay endpoint ends with call_external_api
\* returning one of the four classes of result: success, with the parsed
\* body, for every answer with status 200; timeout for a timeout; network
\* error for another exception of the network; non-200 status, with the
\* status code and the first 500 characters of the body at most, for every
\* other answer.
C13_RelayClassified ==
    \A h \in Handlers :
        LET t == th[h]
        IN  t.http.kind # "none" =>
                /\ t.api \in ApiClasses
                /\ (t.http.kind = "response" /\ t.http.status_code = 200) =>
                        /\ t.api = "success" /\ t.api_result.success
                        /\ t.api_result.data # "none"
                /\ t.http.kind = "timeout" => t.api = "timeout"
                /\ t.http.kind = "network" => t.api = "network_error"
                /\ (t.http.kind = "response" /\ t.http.status_code # 200) =>
                        /\ t.api = "non_ok_status" /\ ~t.api_result.success
                        /\ t.api_result.status_code = t.http.status_code
                        /\ Len(t.api_result.response) <= 500
                        /\ t.api_result.response
                             = SubSeq(t.http.text, 1, Len(t.api_result.response))
                        /\ Len(t.http.text) <= 500 =>
                                t.api_result.response = t.http.text

\* C14: the payload of the relay POST holds, as utr, the first extracted
\* reference number or "" when there is none and, as amount, the first
\* extracted amount or 0 when there is none, with the vendor id and nothing
\* else: the elements after the first are not in it.
C14_PayloadFirstElements ==
    \A h \in Handlers :
        LET t == th[h]
            refs == extract_reference_numbers(t.update.text)
            amts == extract_money_amounts(t.update.text)
        IN  \A i \in 1..Len(t.relays) :
                /\ DOMAIN t.relays[i] = {"utr", "amount", "vendor_id"}
                /\ t.relays[i].utr = IF refs = <<>> THEN "" ELSE Head(refs)
                /\ t.relays[i].amount = IF amts = <<>> THEN 0 ELSE Head(amts)
                /\ t.relays[i].vendor_id = 3

\* C14 witness: of the references 22222222, 11111111 and the amounts 5.00,
\* 1000.00 the payload holds 22222222 and 5.00.
C14_Witness ==
    \E h \in Handlers :
        /\ th[h].update.text = TxtTwo /\ Len(th[h].relays) = 1
        /\ th[h].reference_numbers = <<"22222222", "11111111">>
        /\ th[h].amounts = <<500, 100000>>
        /\ th[h].relays[1] = [utr |-> "22222222", amount |-> 500, vendor_id |-> 3]

\* The replies of a handler that are final replies.
FinalReplies(t) ==
    { i \in 1..Len(t.replies) : t.replies[i].kind \in {"final_success", "final_error"} }

\* C15: an event whose relay call returned a timeout, a network error or a
\* non-200 status ends with one final reply, the webhook answering 200; the
\* reply's text names the class (for a non-200 status with the status code)
\* and not another class, so the reply for a timeout differs from the reply
\* for every non-200 answer.
C15_FailureReplies ==
    \A h \in Handlers :
        LET t == th[h]
        IN  ( /\ IsEvent(t) /\ t.pc = "done"
              /\ t.api \in {"timeout", "network_error", "non_ok_status"} ) =>
                /\ t.resp = 200
                /\ FinalReplies(t) = {2} /\ Len(t.replies) = 2
                /\ LET text == t.replies[2].text
                   IN  /\ t.replies[2].kind = "final_error"
                       /\ InSeq("**API call failed:** ", text)
                       /\ InSeq("API request timed out", text) <=> t.api = "timeout"
                       /\ InSeq("Network error: ", text) <=> t.api = "network_error"
                       /\ InSeq("API returned status ", text) <=> t.api = "non_ok_status"
                       /\ InSeq("\n**Status Code:** ", text) <=> t.api = "non_ok_status"
                       /\ t.api = "non_ok_status" =>
                            \E i \in 1..Len(text) :
                                /\ text[i] = "\n**Status Code:** "
                                /\ SubSeq(text, i + 1, Len(text))
                                     = NatDigits(t.http.status_code)
                       /\ t.api = "timeout" =>
                            \A o \in RelayOutcomes :
                                (o.kind = "response" /\ o.status_code # 200) =>
                                    text # final_msg(ApiResult(o, FALSE))

\* C15 witness: the relay call timed out and the event ended with the reply
\* "API call failed: API request timed out" and the answer 200.
C15_Witness ==
    \E h \in Handlers :
        /\ IsEvent(th[h]) /\ th[h].pc = "done" /\ th[h].resp = 200
        /\ th[h].http.kind = "timeout" /\ th[h].api = "timeout"
        /\ Len(th[h].replies) = 2
        /\ th[h].replies[2].text = <<"**API call failed:** ", "API request timed out">>

\* C16: every webhook request ends with an answer to the transport, 200,
\* 400 or 500, and no exception leaves the handler: an exception raised on
\* the way (a message without chat, the relay's answer that does not parse)
\* makes the answer 500, the handler is never left without a next step, and
\* the event then has no reply and no relay call (a silent drop) or the
\* replies sent before the exception.
C16_WebhookAlwaysAnswers ==
    \A h \in Handlers :
        LET t == th[h]
        IN  t.kind = "webhook" =>
                /\ t.pc # "crashed"
                /\ t.pc = "done" => t.resp \in {200, 400, 500}
                /\ t.pc # "done" => t.resp = 0 /\ ENABLED Step(h, AllInputs)
                /\ t.exc # "none" =>
                        /\ t.pc = "done" /\ t.resp = 500
                        /\ \/ t.replies = <<>> /\ t.relays = <<>>
                           \/ /\ Len(t.replies) = 1 /\ t.replies[1].kind = "extracted"
                              /\ t.api = "raised"
                /\ ( /\ t.update.kind \in UpdateKinds /\ ~t.update.has_chat
                     /\ t.update.has_text /\ t.fetch = "ok" /\ t.pc = "done" ) =>
                        t.exc = "KeyError"

\* C16 witness: a message without chat ended with the answer 500, no reply
\* and no relay call.
C16_Witness ==
    \E h \in Handlers :
        /\ th[h].kind = "webhook" /\ th[h].pc = "done" /\ th[h].resp = 500
        /\ th[h].update.kind = "message" /\ ~th[h].update.has_chat
        /\ th[h].exc = "KeyError" /\ th[h].replies = <<>> /\ th[h].relays = <<>>

\* A command: a "message" update whose text begins with '/'.
IsCommand(u) ==
    u.kind = "message" /\ u.has_chat /\ u.has_text /\ u.text.slash

\* The steps of process_message and of call_external_api.
PipelineSteps ==
    {"call_process_message", "process_message", "send_nothing_found",
     "send_extracted", "call_external_api", "send_final"}

\* C17: a command never goes through extraction or the relay call; /start
\* from the authorized chat ends with the one welcome reply (and from
\* another chat with none), every other command ends with no reply.
C17_Commands ==
    \A h \in Handlers :
        LET t == th[h]
        IN  (IsEvent(t) /\ IsCommand(t.update)) =>
                /\ t.pc \notin PipelineSteps
                /\ t.relays = <<>> /\ t.http = NoOutcome /\ t.api = "none"
                /\ t.reference_numbers = <<>> /\ t.amounts = <<>>
                /\ \A i \in 1..Len(t.replies) : t.replies[i].kind = "welcome"
                /\ (t.update.text.word = "/start" /\ t.pc = "done" /\ t.fetch = "ok") =>
                        /\ t.resp = 200
                        /\ t.authorized = "yes" <=>
                                Authorizes(bot.authorized_chat_id, t.update.chat_id)
                        /\ t.authorized = "yes" =>
                                /\ Len(t.replies) = 1
                                /\ t.replies[1].text = <<"**Transaction Bot Started!**">>
                                /\ t.replies[1].chat_id = t.update.chat_id
                        /\ t.authorized = "no" => t.replies = <<>>
                /\ t.update.text.word # "/start" =>
                        /\ t.replies = <<>> /\ t.authorized = "unchecked"
                        /\ (t.pc = "done" /\ t.fetch = "ok") => t.resp = 200

\* C17 witness: "/start" from the authorized chat ended with the welcome
\* reply alone.
C17_Witness ==
    \E h \in Handlers :
        /\ IsEvent(th[h]) /\ th[h].update.kind = "message"
        /\ th[h].update.text = TxtStart /\ th[h].pc = "done" /\ th[h].resp = 200
        /\ th[h].authorized = "yes"
        /\ Len(th[h].replies) = 1 /\ th[h].replies[1].kind = "welcome"
        /\ th[h].relays = <<>>

\* What process_message does for a text, a chat and an authorized id, with
\* the bot's token and what the relay call gave: the decision, the payloads
\* posted and the replies (kind, text, chat and token).  The kind of the
\* update is no part of it.
Pipeline(text, chat_id, authorized_chat_id, token, http, api) ==
    LET refs == extract_reference_numbers(text)
        amts == extract_money_amounts(text)
        r(kind, body) == [kind |-> kind, text |-> body, chat_id |-> chat_id,
                          token |-> token]
        parsed == http.status_code = 200 /\ json(http.text).ok
    IN  IF ~Authorizes(authorized_chat_id, chat_id)
        THEN [authorized |-> "no", relays |-> <<>>, replies |-> <<>>]
        ELSE IF refs = <<>> /\ amts = <<>>
        THEN [authorized |-> "yes", relays |-> <<>>,
              replies |-> <<r("nothing_found",
                              <<"No reference numbers or amounts found.">>)>>]
        ELSE [authorized |-> "yes", relays |-> <<Payload(refs, amts)>>,
              replies |->
                <<r("extracted", extracted_msg(refs, amts))>>
                \o (IF api \notin ApiClasses THEN <<>>
                    ELSE <<r(IF api = "success" THEN "final_success" ELSE "final_error",
                             final_msg(ApiResult(http, parsed)))>>)]

\* What a handler has done, in the same form.
Outcome(t) ==
    [authorized |-> t.authorized, relays |-> t.relays,
     replies |-> [i \in 1..Len(t.replies) |->
                    [kind |-> t.replies[i].kind, text |-> t.replies[i].text,
                     chat_id |-> t.replies[i].chat_id, token |-> t.replies[i].token]]]

\* A text event handled to the end of process_message.
Processed(t) ==
    /\ IsEvent(t) /\ IsTextEvent(t.update)
    /\ t.pc = "done" /\ t.fetch = "ok"

\* C18 as stated: what a text event of any of the four kinds gives is fixed
\* by its text, its chat, the fetched configuration and the relay outcome.
C18_Original ==
    \A h \in Handlers :
        LET t == th[h]
        IN  Processed(t) =>
                Outcome(t) = Pipeline(t.update.text, t.update.chat_id,
                                      t.fetched.chat_id, t.fetched.bot_token,
                                      t.http, t.api)

\* C18 amended: the same holds for the events that carry no
\* migrate_to_chat_id; a message that carries one goes through the same
\* pipeline with that id as the authorized id.
C18_SamePipeline ==
    \A h \in Handlers :
        LET t == th[h]
            id == IF t.update.has_migrate THEN t.update.migrate_to_chat_id
                  ELSE t.fetched.chat_id
        IN  Processed(t) =>
                /\ t.update.has_migrate => t.update.kind = "message"
                /\ Outcome(t) = Pipeline(t.update.text, t.update.chat_id, id,
                                         t.fetched.bot_token, t.http, t.api)

\* C18 witness: an edited channel post from the authorized chat went
\* through extraction, the relay call and the two replies.
C18_Witness ==
    \E h \in Handlers :
        /\ Processed(th[h]) /\ th[h].update.kind = "edited_channel_post"
        /\ ~th[h].update.has_migrate
        /\ th[h].update.text = TxtPay /\ th[h].authorized = "yes"
        /\ Len(th[h].relays) = 1 /\ Len(th[h].replies) = 2
        /\ th[h].api = "success"

\* An update that is not handled: one of the four kinds without a text, or
\* an update of another kind.
NotHandled(u) ==
    \/ u.kind \in UpdateKinds /\ ~u.has_text
    \/ u.kind = "other"

\* The event has ended with nothing done for it.
Dropped(t) ==
    /\ t.pc = "done" /\ t.authorized = "unchecked"
    /\ t.replies = <<>> /\ t.relays = <<>> /\ t.http = NoOutcome
    /\ t.reference_numbers = <<>> /\ t.amounts = <<>>

\* C19: an update that is not handled gets no reply and no relay call: it
\* passes the fetch and the construction of the bot (and the migration
\* update when it carries one), never enters process_message or
\* process_start_command, and ends dropped, with the answer 200 (500 when
\* its fetch failed or when it is a message without chat).
C19_UnhandledDropped ==
    \A h \in Handlers :
        LET t == th[h]
        IN  (IsEvent(t) /\ NotHandled(t.update)) =>
                /\ t.replies = <<>> /\ t.relays = <<>> /\ t.authorized = "unchecked"
                /\ t.pc \in {"fetch_begin", "fetch_get", "fetch_store_token",
                             "fetch_store_chat", "fetch_store_time", "load_token",
                             "load_chat", "store_bot", "migrate_global",
                             "migrate_bot", "done"}
                /\ t.pc # "done" => ENABLED Step(h, AllInputs)
                /\ t.pc = "done" =>
                        /\ Dropped(t)
                        /\ t.resp = IF t.fetch = "ok"
                                       /\ ~(t.update.kind = "message" /\ ~t.update.has_chat)
                                    THEN 200 ELSE 500

\* C19 witness: a channel post without text from the authorized chat ended
\* dropped, with the answer 200.
C19_Witness ==
    \E h \in Handlers :
        /\ IsEvent(th[h]) /\ th[h].update.kind = "channel_post"
        /\ ~th[h].update.has_text /\ th[h].update.has_chat
        /\ Authorizes(bot.authorized_chat_id, th[h].update.chat_id)
        /\ Dropped(th[h]) /\ th[h].resp = 200

\* C20: when the two requests served are events for different chats (here
\* with the configuration endpoint giving both the same configuration),
\* each event handled to the end has the decision, the relay call and the
\* replies that it has when the two are handled one after the other, in
\* either order: those its own text, chat, migrate_to_chat_id, fetched
\* configuration and relay outcome give (C18).
C20_SerialOutcome ==
    \A h, k \in Handlers :
        LET t == th[h]
            id == IF t.update.has_migrate THEN t.update.migrate_to_chat_id
                  ELSE t.fetched.chat_id
        IN  ( /\ h # k /\ Processed(t)
              /\ IsEvent(th[k]) /\ th[k].update.has_chat
              /\ th[k].update.chat_id # t.update.chat_id
              /\ th[k].fetch = "ok" /\ th[k].fetched = t.fetched ) =>
                Outcome(t) = Pipeline(t.update.text, t.update.chat_id, id,
                                      t.fetched.bot_token, t.http, t.api)

\* The steps of a webhook handler that are still ahead of it at each place.
StepsLeft(pc) ==
    CASE pc = "fetch_begin"            -> 16
      [] pc = "fetch_get"              -> 15
      [] pc = "fetch_store_token"      -> 14
      [] pc = "fetch_store_chat"       -> 13
      [] pc = "fetch_store_time"       -> 12
      [] pc = "load_token"             -> 11
      [] pc = "load_chat"              -> 10
      [] pc = "store_bot"              -> 9
      [] pc = "migrate_global"         -> 8
      [] pc = "migrate_bot"            -> 7
      [] pc = "call_process_message"   -> 6
      [] pc = "call_process_start"     -> 6
      [] pc = "process_message"        -> 5
      [] pc = "process_start_command"  -> 5
      [] pc = "send_nothing_found"     -> 4
      [] pc = "send_welcome"           -> 4
      [] pc = "send_extracted"         -> 3
      [] pc = "call_external_api"      -> 2
      [] pc = "send_final"             -> 1
      [] pc = "done"                   -> 0
      [] OTHER                         -> 99

\* C21: every webhook request that is accepted ends: the handler reaches
\* its answer (with no reply sent, or with the replies sent), every step
\* takes it nearer to the answer (no step is taken twice, nothing is tried
\* again), it makes at most one GET, one relay POST and two replies, and once
\* it has answered nothing is left for it to do but to take the next request.
C21_Terminates ==
    /\ \A h \in Handlers : (th[h].kind = "webhook") ~> (th[h].pc = "done")
    /\ [](\A h \in Handlers :
            th[h].kind = "webhook" =>
                /\ StepsLeft(th[h].pc) <= 16
                /\ th[h].gets <= 1 /\ Len(th[h].relays) <= 1 /\ Len(th[h].replies) <= 2
                /\ th[h].pc = "done" => th[h].resp \in {200, 400, 500})
    /\ [][\A h \in Handlers :
            (th[h].kind = "webhook" /\ th'[h] # th[h]) =>
                \/ th[h].pc = "done" /\ th'[h] = IdleThread
                \/ /\ th'[h].kind = "webhook" /\ th'[h].update = th[h].update
                   /\ StepsLeft(th'[h].pc) < StepsLeft(th[h].pc)]_vars

\* C21 witness: an event went through every step (fetch, bot, migration,
\* check, extraction, the two replies and the relay call, here timed out)
\* and has answered.
C21_Witness ==
    \E h \in Handlers :
        /\ th[h].kind = "webhook" /\ th[h].pc = "done" /\ th[h].resp = 200
        /\ th[h].update.has_migrate /\ th[h].gets = 1
        /\ th[h].http.kind = "timeout"
        /\ Len(th[h].relays) = 1 /\ Len(th[h].replies) = 2

\* The result is the stream with every element that equals an earlier one
\* removed: no two elements of the result are equal, the result and the
\* stream have the same elements, and the elements of the result stand in
\* the order of their first places in the stream.
FirstPlace(x, stream) ==
    CHOOSE i \in 1..Len(stream) :
        stream[i] = x /\ \A j \in 1..(i - 1) : stream[j] # x

Deduplicated(result, stream) ==
    /\ \A i, j \in 1..Len(result) : i # j => result[i] # result[j]
    /\ \A i \in 1..Len(result) : InSeq(result[i], stream)
    /\ \A i \in 1..Len(stream) : InSeq(stream[i], result)
    /\ \A i, j \in 1..Len(result) :
            i < j => FirstPlace(result[i], stream) < FirstPlace(result[j], stream)

\* The matches of all the patterns, pattern after pattern.
RefStream(found) ==
    found.refs[1] \o found.refs[2] \o found.refs[3] \o found.refs[4]

AmtStream(found) ==
    found.amts[1] \o found.amts[2] \o found.amts[3] \o found.amts[4]
        \o found.amts[5] \o found.amts[6] \o found.amts[7] \o found.amts[8]

\* A capture of an amount pattern that float() accepts once its commas are
\* removed: it has a digit.
Parseable(capture) == \E i \in 1..Len(capture) : IsDigit(capture[i])

\* The numbers of the captures that parse, in the order of the stream.
ValueStream(found) ==
    LET stream == SelectSeq(AmtStream(found), Parseable)
    IN  [i \in 1..Len(stream) |-> float(replace_commas(stream[i])).value]

\* C22: for every text, the reference numbers are the stream of the matches
\* (pattern after pattern, each pattern's matches in the order of the text)
\* without the elements equal to an earlier one, as strings; the amounts are
\* the stream of the parsed matches without the elements equal to an
\* earlier one, as numbers; the order is that of the first occurrences in
\* the whole stream.
C22_DeduplicatedStream ==
    (probe.fn = "extract" /\ probe.step = 2) =>
        LET refs == RefStream(probe.found)
            values == ValueStream(probe.found)
        IN  /\ Deduplicated(probe.reference_numbers, refs)
            /\ Deduplicated(probe.amounts, values)

\* C22 witness: in "Txn ID 11111111 Ref no 22222222 INR 1,000 Rs 5.00" the
\* stream of references is that of the patterns (Ref before Txn), not of
\* the text, and 1,000 is matched by two patterns and returned once.
C22_Witness ==
    /\ probe.fn = "extract" /\ probe.step = 2 /\ probe.text = TwoText
    /\ RefStream(probe.found) = <<<<"2", "2", "2", "2", "2", "2", "2", "2">>,
                                  <<"1", "1", "1", "1", "1", "1", "1", "1">>>>
    /\ probe.reference_numbers = RefStream(probe.found)
    /\ AmtStream(probe.found) = <<<<"5", ".", "0", "0">>,
                                  <<"1", ",", "0", "0", "0">>,
                                  <<"1", ",", "0", "0", "0">>>>
    /\ probe.amounts = <<500, 100000>>

\* C23: a capture that float() rejects (it has no digit: commas only) is
\* dropped alone: whatever captures are rejected, before or after, the
\* amounts returned are the numbers of all the other captures of all the
\* patterns, so the rejection ends neither the loop nor the method.
C23_ParseFailureDropsOneMatch ==
    (probe.fn = "extract" /\ probe.step = 2) =>
        LET captures == AmtStream(probe.found)
            values == ValueStream(probe.found)
        IN  /\ \A i \in 1..Len(captures) :
                    /\ Parseable(captures[i]) <=> float(replace_commas(captures[i])).ok
                    /\ Parseable(captures[i]) =>
                            InSeq(float(replace_commas(captures[i])).value,
                                  probe.amounts)
            /\ \A i \in 1..Len(probe.amounts) : InSeq(probe.amounts[i], values)
            /\ Len(probe.amounts) <= Len(values)

\* C23 witness: in "Rs , INR 1,000" the capture "," is dropped and 1,000 is
\* returned.
C23_Witness ==
    /\ probe.fn = "extract" /\ probe.step = 2 /\ probe.text = CommaText
    /\ AmtStream(probe.found) = <<<<",">>, <<"1", ",", "0", "0", "0">>>>
    /\ probe.amounts = <<100000>>

\* C24: for the text of scenario B the reference numbers are
\* <<"690518190930">> and the amounts <<2.00>>; the reference is matched by
\* the UPI Ref and the Ref patterns, the amount by the Rs and the "credited
\* for" patterns, and by no other pattern.
C24_ScenarioB ==
    (probe.fn = "extract" /\ probe.step = 2 /\ probe.text = SmsText) =>
        /\ probe.reference_numbers = <<<<"6", "9", "0", "5", "1", "8", "1", "9", "0", "9", "3", "0">>>>
        /\ probe.amounts = <<200>>
        /\ probe.found.refs =
                << <<<<"6", "9", "0", "5", "1", "8", "1", "9", "0", "9", "3", "0">>>>,
                   <<<<"6", "9", "0", "5", "1", "8", "1", "9", "0", "9", "3", "0">>>>,
                   <<>>, <<>> >>
        /\ probe.found.amts = TxtBoth.amts
        /\ probe.found.amts[2] = <<<<"2", ".", "0", "0">>>>
        /\ probe.found.amts[7] = <<<<"2", ".", "0", "0">>>>

\* C24 witness: the text of scenario B has been through both methods, each
\* with two candidates.
C24_Witness ==
    /\ probe.fn = "extract" /\ probe.step = 2 /\ probe.text = SmsText
    /\ Len(RefStream(probe.found)) = 2 /\ Len(probe.reference_numbers) = 1
    /\ Len(AmtStream(probe.found)) = 2 /\ Len(probe.amounts) = 1

\* C25: the server accepts requests only after an initial configuration
\* fetch has succeeded, whichever way the application is started: when it
\* starts serving, a fetch has returned True (it stored the time of the
\* snapshot) and the bot is built.
C25_NoTrafficWithoutInitialFetch ==
    (phase = "serving" /\ nreq = 0) =>
        /\ LAST_CONFIG_FETCH # PyNone
        /\ bot.some

\* C26: the manual refresh always makes the GET, whatever the age of the
\* cache; when the fetch succeeds the global bot is rebuilt from the values
\* fetched and the answer is 200 (success); when it fails the answer is 500
\* (failure) and neither the snapshot nor the bot has changed.
C26_ManualRefresh ==
    /\ [](\A h \in Handlers :
            LET t == th[h]
            IN  t.kind = "refresh_config" =>
                    /\ t.force
                    /\ t.fetch # "cached"
                    /\ t.pc \notin {"idle", "fetch_begin", "fetch_get"} => t.gets = 1
                    /\ t.pc = "done" =>
                        /\ t.resp = 200 <=> t.fetch = "ok"
                        /\ t.resp = 500 <=> t.fetch \in ConfigFailures
                        /\ t.resp = 200 =>
                            /\ bot = TransactionBot(t.fetched.bot_token,
                                                    t.fetched.chat_id)
                            /\ BOT_TOKEN = t.fetched.bot_token
                            /\ AUTHORIZED_CHAT_ID = t.fetched.chat_id
                        /\ t.resp = 500 => Snapshot = t.before)
    /\ [][\A h \in Handlers :
            th[h].kind = "refresh_config" =>
                /\ bot' # bot => th[h].pc = "store_bot" /\ th[h].fetch = "ok"
                /\ th'[h].fetch \in ConfigFailures =>
                        bot' = bot /\ Snapshot' = Snapshot]_vars

\* A manual refresh made while the cache was fresh has replaced the bot.
C26_Witness ==
    /\ th[1].kind = "refresh_config" /\ th[1].pc = "done" /\ th[1].resp = 200
    /\ nreq = 2 /\ ticks = 0
    /\ bot = TransactionBot(th[1].fetched.bot_token, th[1].fetched.chat_id)
    /\ truthy(bot.token)

\* What fetch_runtime_config returns for a setting taken from the
\* environment alone.
EnvConfig(env) ==
    [api_id |-> PyInt(IF isdigit(str(env.API_ID)) THEN int(env.API_ID) ELSE 0),
     api_hash |-> env.API_HASH,
     authorized_chat_id |-> PyStr(str(env.AUTHORIZED_CHAT_ID)),
     source_bot_username |-> env.SOURCE_BOT_USERNAME,
     telethon_string_session |-> env.TELETHON_STRING_SESSION]

\* C27: the environment overrides the configuration API in
\* fetch_runtime_config: for each of the five settings, when the environment
\* variable is non-empty and the API supplies a non-empty value too, the
\* configuration returned holds the environment's value.
C27_EnvOverrides ==
    (probe.fn = "fetch_runtime_config" /\ probe.done) =>
        LET data == RuntimeData(probe.resp)
            env == probe.env
            want == EnvConfig(env)
            cfg == probe.cfg
        IN  /\ (truthy(env.API_ID) /\ (truthy(data.api_id) \/ truthy(data.API_ID)))
                    => cfg.api_id = want.api_id
            /\ (truthy(env.API_HASH) /\ (truthy(data.api_hash) \/ truthy(data.API_HASH)))
                    => cfg.api_hash = want.api_hash
            /\ (truthy(env.AUTHORIZED_CHAT_ID)
                    /\ (truthy(data.chat_id) \/ truthy(data.AUTHORIZED_CHAT_ID)))
                    => cfg.authorized_chat_id = want.authorized_chat_id
            /\ (truthy(env.SOURCE_BOT_USERNAME)
                    /\ (truthy(data.source_bot_username)
                            \/ truthy(data.SOURCE_BOT_USERNAME)))
                    => cfg.source_bot_username = want.source_bot_username
            /\ (truthy(env.TELETHON_STRING_SESSION)
                    /\ (truthy(data.telethon_string_session)
                            \/ truthy(data.TELETHON_STRING_SESSION)))
                    => cfg.telethon_string_session = want.telethon_string_session

\* C28: a webhook event whose forced fetch failed (status other than 200,
\* exception, body that is not a JSON object) ends at once with the answer
\* 500: one GET, no bot built or used, no authorization check, no
\* extraction, no relay call, no reply; the step that fails and the steps
\* after it change neither the snapshot nor the bot, so no migration is
\* applied and the snapshot of before the fetch is left as it was, unused.
C28_FailedFetchAbandons ==
    /\ [](\A h \in Handlers :
            LET t == th[h]
            IN  (t.kind = "webhook" /\ t.fetch \in ConfigFailures) =>
                    /\ Dropped(t)
                    /\ t.resp = 500
                    /\ t.gets = 1
                    /\ t.self = NoSelf
                    /\ t.token_arg = PyNone /\ t.chat_arg = PyNone
                    /\ t.api = "none" /\ t.api_result = NoResult
                    /\ Snapshot = t.before)
    /\ [][\A h \in Handlers :
            ((th[h].kind = "webhook" /\ th[h].fetch \in ConfigFailures)
                \/ (th'[h].kind = "webhook" /\ th'[h].fetch \in ConfigFailures))
            => (bot' = bot /\ Snapshot' = Snapshot)]_vars

\* A message with a reference and an amount, sent from the chat of the
\* snapshot in memory and carrying a migration, has met a failed fetch.
C28_Witness ==
    /\ th[1].kind = "webhook" /\ th[1].fetch \in ConfigFailures
    /\ th[1].pc = "done" /\ th[1].resp = 500
    /\ th[1].update.kind = "message" /\ th[1].update.text = TxtBoth
    /\ th[1].update.has_migrate
    /\ truthy(BOT_TOKEN) /\ bot.some
    /\ Authorizes(AUTHORIZED_CHAT_ID, th[1].update.chat_id)
    /\ Authorizes(bot.authorized_chat_id, th[1].update.chat_id)

\* The id an event is checked against, by its own data and its own fetch.
OwnId(t) ==
    IF t.update.has_migrate THEN t.update.migrate_to_chat_id ELSE t.fetched.chat_id

\* C29: with events handled one after the other, the authorization decision
\* of an event is given by its own chat_id, its own migrate_to_chat_id and
\* the chat_id its own fetch returned, whatever was in memory when it
\* arrived (the configuration or the migration of an earlier event): the
\* check is made after a successful fetch, against a bot and a global that
\* hold the id of the event's own data.
C29_OwnDataDecides ==
    \A h \in Handlers :
        LET t == th[h]
        IN  (t.kind = "webhook" /\ t.authorized # "unchecked") =>
                /\ t.fetch = "ok"
                /\ t.authorized = "yes" <=> Authorizes(OwnId(t), t.update.chat_id)
                /\ SelfObj(t).authorized_chat_id = OwnId(t)
                /\ AUTHORIZED_CHAT_ID = OwnId(t)

\* An event from the chat an earlier event migrated to, arriving while the
\* migrated id is in memory, is refused: its fetch returned the other chat.
C29_Witness ==
    /\ th[1].kind = "webhook" /\ th[1].authorized = "no"
    /\ th[1].arrived = PyInt(2) /\ th[1].update.chat_id = PyInt(2)
    /\ ~th[1].update.has_migrate
    /\ th[1].fetched.chat_id = PyInt(1)
    /\ PyInt(2) \in MigrateIds
    /\ \A b \in ConfigBodies : b.chat_id # PyInt(2)

\* A message that carries migrate_to_chat_id, whose text is one the webhook
\* hands to the bot (no command other than /start), handled to the end
\* after a successful fetch.
MigrationEvent(t) ==
    /\ t.kind = "webhook" /\ t.pc = "done" /\ t.fetch = "ok"
    /\ t.update.kind = "message" /\ t.update.has_migrate /\ t.update.has_chat
    /\ t.update.has_text /\ (t.update.text.slash => t.update.text = TxtStart)

\* C30 as stated: for a message carrying migrate_to_chat_id = m the
\* authorized id becomes m whatever the chat and whatever the fetch returned,
\* and the text is processed iff str(chat_id) = str(m).
C30_Original ==
    \A h \in Handlers :
        LET t == th[h]
            m == t.update.migrate_to_chat_id
        IN  MigrationEvent(t) =>
                /\ AUTHORIZED_CHAT_ID = m /\ SelfObj(t).authorized_chat_id = m
                /\ t.authorized # "unchecked"
                /\ t.authorized = "yes" <=> str(t.update.chat_id) = str(m)

\* C30: for a message carrying migrate_to_chat_id = m the authorized id
\* becomes m without any check of the sending chat, whatever the fetch
\* returned, and the text is processed iff m is truthy (not 0, not empty,
\* not None) and str(chat_id) = str(m).
C30_MigrationUnchecked ==
    \A h \in Handlers :
        LET t == th[h]
            m == t.update.migrate_to_chat_id
        IN  MigrationEvent(t) =>
                /\ AUTHORIZED_CHAT_ID = m /\ SelfObj(t).authorized_chat_id = m
                /\ t.authorized # "unchecked"
                /\ t.authorized = "yes" <=>
                        (truthy(m) /\ str(t.update.chat_id) = str(m))

\* A message of the chat it migrates to is processed and answered, although
\* the fetch returned another chat as the authorized one.
C30_Witness ==
    /\ MigrationEvent(th[1])
    /\ th[1].update.chat_id = th[1].update.migrate_to_chat_id
    /\ ~Authorizes(th[1].fetched.chat_id, th[1].update.chat_id)
    /\ th[1].authorized = "yes" /\ th[1].replies # <<>> /\ th[1].relays # <<>>

\* The kinds of the reply that ends process_message or process_start_command.
LastReplyKinds == {"final_success", "final_error", "nothing_found", "welcome"}

\* C31: a reply that cannot be delivered never aborts the pipeline: when
\* the "extracted data" reply of an event has failed, the event ends with
\* its one relay call made and its final reply attempted, and an event whose
\* last reply has failed is answered 200 like any other.
C31_FailedReplyNoAbort ==
    \A h \in Handlers :
        LET t == th[h]
            n == Len(t.replies)
        IN  (t.kind = "webhook" /\ t.pc = "done" /\ n > 0) =>
                /\ (t.replies[1].kind = "extracted" /\ ~t.replies[1].ok) =>
                        /\ Len(t.relays) = 1
                        /\ n = 2
                        /\ t.replies[2].kind \in {"final_success", "final_error"}
                /\ (t.replies[n].kind \in LastReplyKinds /\ ~t.replies[n].ok) =>
                        t.resp = 200 /\ t.exc = "none"

\* An edited message, channel post or edited channel post whose text begins
\* with '/', handled after a successful fetch.
SlashPost(t) ==
    /\ t.kind = "webhook" /\ t.fetch = "ok"
    /\ t.update.kind \in UpdateKinds \ {"message"}
    /\ t.update.has_chat /\ t.update.has_text /\ t.update.text.slash

\* C32: commands are handled for "message" updates only: an edited message,
\* channel post or edited channel post whose text begins with '/' never
\* enters process_start_command and never gets the welcome reply; it goes
\* through process_message, and from the authorized chat it ends with at
\* least one reply, the first being the "nothing found" reply (nothing
\* extracted, as for "/start") or the "extracted data" reply.
C32_CommandsOnlyForMessages ==
    \A h \in Handlers :
        LET t == th[h]
        IN  SlashPost(t) =>
                /\ t.pc \notin {"call_process_start", "process_start_command",
                                "send_welcome"}
                /\ \A i \in 1..Len(t.replies) : t.replies[i].kind # "welcome"
                /\ t.pc = "done" =>
                    /\ t.authorized # "unchecked"
                    /\ t.authorized = "yes" <=>
                            Authorizes(t.fetched.chat_id, t.update.chat_id)
                    /\ t.authorized = "yes" =>
                        /\ Len(t.replies) >= 1
                        /\ t.replies[1].kind \in {"nothing_found", "extracted"}
                        /\ t.replies[1].kind = "nothing_found" <=>
                                (t.reference_numbers = <<>> /\ t.amounts = <<>>)
                        /\ t.replies[1].kind = "nothing_found" => Len(t.replies) = 1

\* A channel post "/start" from the authorized chat has been answered
\* "nothing found".
C32_Witness ==
    /\ SlashPost(th[1]) /\ th[1].pc = "done"
    /\ th[1].update.kind = "channel_post" /\ th[1].update.text = TxtStart
    /\ th[1].authorized = "yes"
    /\ Len(th[1].replies) = 1 /\ th[1].replies[1].kind = "nothing_found"

\* The handlers that build the bot after a fetch.
BotBuilders == {"webhook", "refresh_config", "set_webhook", "webhook_info"}

\* C33: with requests handled one after the other, a bot that exists when
\* a handler has ended (none is under way) holds the token and the authorized chat id of the
\* globals BOT_TOKEN and AUTHORIZED_CHAT_ID; a handler of the four that
\* fetch ends, after a fetch that succeeded, with a bot that exists; and a
\* webhook event that carried a migration ends with its id in both.
C33_BotMatchesGlobals ==
    (\A k \in Handlers : th[k].pc \in {"idle", "done"}) =>
        /\ bot.some => bot = TransactionBot(BOT_TOKEN, AUTHORIZED_CHAT_ID)
        /\ \A h \in Handlers :
            LET t == th[h]
            IN  /\ (t.pc = "done" /\ t.kind \in BotBuilders
                        /\ t.fetch \in {"ok", "cached"}) => bot.some
                /\ (t.pc = "done" /\ t.kind = "webhook" /\ t.fetch = "ok"
                        /\ t.update.kind = "message" /\ t.update.has_chat
                        /\ t.update.has_migrate) =>
                            /\ bot.authorized_chat_id = t.update.migrate_to_chat_id
                            /\ AUTHORIZED_CHAT_ID = t.update.migrate_to_chat_id

\* A webhook event has ended after its migration replaced the chat id its
\* fetch returned, in the global and in the bot.
C33_Witness ==
    /\ th[1].kind = "webhook" /\ th[1].pc = "done" /\ th[1].fetch = "ok"
    /\ th[1].update.has_migrate
    /\ th[1].fetched.chat_id # th[1].update.migrate_to_chat_id
    /\ bot.some /\ truthy(bot.token)
    /\ bot = TransactionBot(BOT_TOKEN, AUTHORIZED_CHAT_ID)
    /\ bot.authorized_chat_id = th[1].update.migrate_to_chat_id

============================================================================
